---- MODULE Spec2Model ----
(***************************************************************************)
(* subtitle-hunter: the acquisition-and-placement pipeline.                *)
(*                                                                         *)
(* Strings and byte slices are sequences of atoms.  An atom is one         *)
(* character ("a", " ", "\n", "/", "."), or a literal the code treats as   *)
(* one unit and that holds no separator: a timestamp of the shape          *)
(* \d{2}:\d{2}:\d{2},\d{3} (written "T1", "T2", ...), the arrow "-->",     *)
(* a language tag ("zh-Hant"), the extension word "srt".                   *)
(***************************************************************************)
EXTENDS Integers, Sequences, FiniteSets, TLC

(***************************************************************************)
(* Go's strings package, on sequences of atoms.                            *)
(***************************************************************************)

\* unicode.IsSpace on the atoms the model uses
IsSpace(c) == c \in {" ", "\t", "\n", "\r"}

RECURSIVE TrimLeft(_)
TrimLeft(s) ==
  IF s # <<>> /\ IsSpace(Head(s)) THEN TrimLeft(Tail(s)) ELSE s

RECURSIVE TrimRight(_)
TrimRight(s) ==
  IF s # <<>> /\ IsSpace(s[Len(s)]) THEN TrimRight(SubSeq(s, 1, Len(s) - 1)) ELSE s

\* strings.TrimSpace
TrimSpace(s) == TrimRight(TrimLeft(s))

\* strings.HasPrefix
HasPrefix(s, prefix) ==
  Len(prefix) <= Len(s) /\ SubSeq(s, 1, Len(prefix)) = prefix

\* strings.HasSuffix
HasSuffix(s, suffix) ==
  Len(suffix) <= Len(s) /\ SubSeq(s, Len(s) - Len(suffix) + 1, Len(s)) = suffix

\* strings.TrimSuffix
TrimSuffix(s, suffix) ==
  IF HasSuffix(s, suffix) THEN SubSeq(s, 1, Len(s) - Len(suffix)) ELSE s

\* strings.ReplaceAll(s, old, new), old non-empty: leftmost, non-overlapping
RECURSIVE ReplaceAll(_, _, _)
ReplaceAll(s, old, new) ==
  IF s = <<>> THEN <<>>
  ELSE IF HasPrefix(s, old)
       THEN new \o ReplaceAll(SubSeq(s, Len(old) + 1, Len(s)), old, new)
       ELSE <<Head(s)>> \o ReplaceAll(Tail(s), old, new)

\* strings.Replace(s, old, new, 1), old non-empty: the first occurrence only
RECURSIVE ReplaceFirst(_, _, _)
ReplaceFirst(s, old, new) ==
  IF s = <<>> THEN <<>>
  ELSE IF HasPrefix(s, old)
       THEN new \o SubSeq(s, Len(old) + 1, Len(s))
       ELSE <<Head(s)>> \o ReplaceFirst(Tail(s), old, new)

\* strings.Split(s, sep), sep non-empty: n separators give n+1 pieces
RECURSIVE SplitAcc(_, _, _)
SplitAcc(s, sep, cur) ==
  IF s = <<>> THEN <<cur>>
  ELSE IF HasPrefix(s, sep)
       THEN <<cur>> \o SplitAcc(SubSeq(s, Len(sep) + 1, Len(s)), sep, <<>>)
       ELSE SplitAcc(Tail(s), sep, Append(cur, Head(s)))

Split(s, sep) == SplitAcc(s, sep, <<>>)

\* strings.Join
RECURSIVE Join(_, _)
Join(parts, sep) ==
  IF parts = <<>> THEN <<>>
  ELSE IF Len(parts) = 1 THEN parts[1]
       ELSE parts[1] \o sep \o Join(Tail(parts), sep)

(***************************************************************************)
(* strconv.Atoi and fmt's %d, %02d.                                        *)
(***************************************************************************)
DigitChars == <<"0", "1", "2", "3", "4", "5", "6", "7", "8", "9">>

IsDigit(c) == \E i \in 1..10 : DigitChars[i] = c

DigitVal(c) == (CHOOSE i \in 1..10 : DigitChars[i] = c) - 1

RECURSIVE DigitsVal(_)
DigitsVal(ds) ==
  IF ds = <<>> THEN 0
  ELSE 10 * DigitsVal(SubSeq(ds, 1, Len(ds) - 1)) + DigitVal(ds[Len(ds)])

\* the digits of Atoi's argument, its optional sign removed
AtoiDigits(s) ==
  IF s # <<>> /\ Head(s) \in {"+", "-"} THEN Tail(s) ELSE s

\* strconv.Atoi returns a nil error: an optional sign, then one digit or more
\* (the model's digit strings are far below the range of int)
AtoiOK(s) ==
  /\ AtoiDigits(s) # <<>>
  /\ \A i \in 1..Len(AtoiDigits(s)) : IsDigit(AtoiDigits(s)[i])

\* strconv.Atoi's value when AtoiOK
AtoiVal(s) ==
  IF Head(s) = "-" THEN 0 - DigitsVal(AtoiDigits(s)) ELSE DigitsVal(AtoiDigits(s))

RECURSIVE NatToStr(_)
NatToStr(n) ==
  IF n < 10 THEN <<DigitChars[n + 1]>>
  ELSE NatToStr(n \div 10) \o <<DigitChars[(n % 10) + 1]>>

\* fmt.Sprintf("%d", n)
Itoa(n) == IF n < 0 THEN <<"-">> \o NatToStr(0 - n) ELSE NatToStr(n)

\* a faulty Pad2: the number is not padded
Pad2Unpadded(n) == Itoa(n)

\* fmt.Sprintf("%02d", n): zero-padded to width 2, the sign counted in the width
Pad2(n) ==
  IF n < 0 THEN <<"-">> \o NatToStr(0 - n)
  ELSE IF n < 10 THEN <<"0">> \o NatToStr(n) ELSE NatToStr(n)

(***************************************************************************)
(* internal/subtitle/parser.go: the SRT codec.                             *)
(***************************************************************************)

\* the atoms that stand for a text of the shape \d{2}:\d{2}:\d{2},\d{3}
Timestamps == {"T1", "T2", "T3", "T4"}

\* \s of the regular expression, on the atoms a line can hold
IsReSpace(c) == c \in {" ", "\t", "\r"}

\* the first position at or after i of line that holds no \s
RECURSIVE SkipSpaces(_, _)
SkipSpaces(line, i) ==
  IF i <= Len(line) /\ IsReSpace(line[i]) THEN SkipSpaces(line, i + 1) ELSE i

\* timeRegex matches line starting at position i:
\*   (\d{2}:\d{2}:\d{2},\d{3})\s*-->\s*(\d{2}:\d{2}:\d{2},\d{3})
TimeMatchAt(line, i) ==
  LET j == SkipSpaces(line, i + 1)
      k == SkipSpaces(line, j + 1)
  IN /\ line[i] \in Timestamps
     /\ j <= Len(line) /\ line[j] = "-->"
     /\ k <= Len(line) /\ line[k] \in Timestamps

\* timeRegex.FindStringSubmatch(line): the leftmost match's two groups, or
\* the empty sequence when the expression matches nowhere in the line
FindTimeMatch(line) ==
  LET starts == {i \in 1..Len(line) : TimeMatchAt(line, i)}
  IN IF starts = {} THEN <<>>
     ELSE LET i == CHOOSE m \in starts : \A n \in starts : m <= n
              j == SkipSpaces(line, i + 1)
              k == SkipSpaces(line, j + 1)
          IN <<line[i], line[k]>>

\* a faulty ParseBlock: a block of two lines is taken, with an empty text
ParseBlockTakesTwoLines(rawBlock) ==
  LET block == TrimSpace(rawBlock)
      lines == Split(block, <<"\n">>)
  IN IF block = <<>> THEN <<>>
     ELSE IF Len(lines) < 2 THEN <<>>
     ELSE IF ~AtoiOK(TrimSpace(lines[1])) THEN <<>>
     ELSE IF FindTimeMatch(lines[2]) = <<>> THEN <<>>
     ELSE << [Index     |-> AtoiVal(TrimSpace(lines[1])),
              StartTime |-> FindTimeMatch(lines[2])[1],
              EndTime   |-> FindTimeMatch(lines[2])[2],
              Text      |-> TrimSpace(Join(SubSeq(lines, 3, Len(lines)), <<"\n">>))] >>

\* the body of Parse's loop for one block: the entries (none or one) the
\* block contributes
ParseBlock(rawBlock) ==
  LET block == TrimSpace(rawBlock)
      lines == Split(block, <<"\n">>)
  IN IF block = <<>> THEN <<>>
     ELSE IF Len(lines) < 3 THEN <<>>
     ELSE IF ~AtoiOK(TrimSpace(lines[1])) THEN <<>>
     ELSE IF FindTimeMatch(lines[2]) = <<>> THEN <<>>
     ELSE << [Index     |-> AtoiVal(TrimSpace(lines[1])),
              StartTime |-> FindTimeMatch(lines[2])[1],
              EndTime   |-> FindTimeMatch(lines[2])[2],
              Text      |-> TrimSpace(Join(SubSeq(lines, 3, Len(lines)), <<"\n">>))] >>

RECURSIVE ParseBlocks(_)
ParseBlocks(blocks) ==
  IF blocks = <<>> THEN <<>>
  ELSE ParseBlock(Head(blocks)) \o ParseBlocks(Tail(blocks))

\* SRTParser.Parse: the entries; its error result is always nil
Parse(content) ==
  ParseBlocks(Split(ReplaceAll(content, <<"\r", "\n">>, <<"\n">>), <<"\n", "\n">>))

\* a faulty FormatEntry: the entries are numbered anew, from 1
FormatEntryRenumbers(entries, i) ==
  (IF i > 1 THEN <<"\n">> ELSE <<>>)
  \o Itoa(i) \o <<"\n">>
  \o <<entries[i].StartTime, " ", "-->", " ", entries[i].EndTime, "\n">>
  \o entries[i].Text
  \o <<"\n">>

\* what Format writes for the entry at position i (1-based)
FormatEntry(entries, i) ==
  (IF i > 1 THEN <<"\n">> ELSE <<>>)
  \o Itoa(entries[i].Index) \o <<"\n">>
  \o <<entries[i].StartTime, " ", "-->", " ", entries[i].EndTime, "\n">>
  \o entries[i].Text
  \o <<"\n">>

RECURSIVE FormatFrom(_, _)
FormatFrom(entries, i) ==
  IF i > Len(entries) THEN <<>>
  ELSE FormatEntry(entries, i) \o FormatFrom(entries, i + 1)

\* SRTParser.Format
Format(entries) == FormatFrom(entries, 1)

(***************************************************************************)
(* internal/translator/google.go: the translation adapter.                 *)
(***************************************************************************)

\* htmlTagRegex.ReplaceAllString(text, ""): every leftmost match of <[^>]*>
\* is removed; a "<" with no ">" after it stays
RECURSIVE StripTags(_)
StripTags(s) ==
  IF s = <<>> THEN <<>>
  ELSE IF Head(s) = "<" /\ \E j \in 2..Len(s) : s[j] = ">"
       THEN LET close == CHOOSE j \in 2..Len(s) :
                           s[j] = ">" /\ \A m \in 2..(j - 1) : s[m] # ">"
            IN StripTags(SubSeq(s, close + 1, Len(s)))
       ELSE <<Head(s)>> \o StripTags(Tail(s))

\* spaceRegex.ReplaceAllString(text, " "): every run \s+ becomes one space
RECURSIVE CollapseSpaces(_)
CollapseSpaces(s) ==
  IF s = <<>> THEN <<>>
  ELSE IF IsSpace(Head(s)) THEN <<" ">> \o CollapseSpaces(TrimLeft(Tail(s)))
       ELSE <<Head(s)>> \o CollapseSpaces(Tail(s))

\* GoogleTranslator.cleanTextForTranslation
cleanTextForTranslation(text) == CollapseSpaces(TrimSpace(StripTags(text)))

\* What the backend can answer to one call: no answer (the HTTP call fails),
\* a body that starts with "<" once trimmed, a body that is not JSON, an
\* empty JSON array, an array whose first element is no array, or the
\* translation.
BackendResponses == {"neterr", "html", "badjson", "empty", "badformat", "json"}

\* the answers of the backend to one call, as the HTTP client gives them:
\* an error, or a body.  A body is a sequence of characters in which a JSON
\* document is one atom: "[]" the empty array, "[1]" an array whose first
\* element is no array, "[[[t]]]" the translation.  The bodies: an HTML page,
\* an HTML page after a line end and a space, the translation, the
\* translation between white space, text that is not JSON, the two arrays
\* without a translation, and a translation after a tag
BackendReplies ==
  { [err |-> TRUE, body |-> <<>>] } \cup
  { [err |-> FALSE, body |-> b] :
      b \in { <<"<", "h", "t", "m", "l", ">">>,
              <<"\n", " ", "<", "!", ">">>,
              <<"[[[t]]]">>,
              <<" ", "[[[t]]]", "\n">>,
              <<"x">>,
              <<"[]">>,
              <<"[1]">>,
              <<"<", "[[[t]]]">> } }

\* json.Unmarshal(body, &result): the document of the body, white space
\* around it allowed; "" when the body is not JSON
Unmarshal(body) ==
  IF Len(TrimSpace(body)) = 1 /\ TrimSpace(body)[1] \in {"[]", "[1]", "[[[t]]]"}
  THEN TrimSpace(body)[1]
  ELSE ""

\* a faulty ResponseOf: a body that starts with "<" is not turned down, and
\* what follows the "<" is taken for the answer
ResponseOfTakesHTML(reply) ==
  IF reply.err THEN "neterr"
  ELSE IF Unmarshal(reply.body) = "" /\ ~HasPrefix(TrimSpace(reply.body), <<"<">>)
       THEN "badjson"
  ELSE IF Unmarshal(reply.body) = "[]" THEN "empty"
  ELSE IF Unmarshal(reply.body) = "[1]" THEN "badformat"
  ELSE "json"

\* GoogleTranslator.Translate, from the return of client.Get to its own
\* return: which of BackendResponses the reply is
ResponseOf(reply) ==
  IF reply.err THEN "neterr"
  ELSE IF HasPrefix(TrimSpace(reply.body), <<"<">>) THEN "html"
  ELSE IF Unmarshal(reply.body) = "" THEN "badjson"
  ELSE IF Unmarshal(reply.body) = "[]" THEN "empty"
  ELSE IF Unmarshal(reply.body) = "[1]" THEN "badformat"
  ELSE "json"

\* the text the backend's translation of q is assembled to (the backend is
\* opaque: its text is the query marked as translated)
BackendText(q) == <<"zh:">> \o q

\* GoogleTranslator.Translate, given the backend's answer to its call (for an
\* empty text no call is made)
Translate(text, response) ==
  IF text = <<>> THEN [err |-> FALSE, text |-> <<>>]
  ELSE IF response = "json"
       THEN [err |-> FALSE, text |-> BackendText(cleanTextForTranslation(text))]
       ELSE [err |-> TRUE, text |-> <<>>]

\* GoogleTranslator.TranslateToChineseTraditional
TranslateToChineseTraditional(text, response) == Translate(text, response)

\* the maxRetries argument TranslateEntries passes to translateWithRetry
MaxRetries == 3

\* a faulty WaitTime: the wait is the attempt's number
WaitTimeOffByOne(attempt) == attempt

\* translateWithRetry's waitTime before attempt n > 1, in seconds
WaitTime(attempt) == attempt - 1

(***************************************************************************)
(* path/filepath on clean slash-separated paths, and config/config.go.     *)
(***************************************************************************)

\* the last position of atom c in s, 0 when there is none
LastIndex(s, c) ==
  IF \E i \in 1..Len(s) : s[i] = c
  THEN CHOOSE i \in 1..Len(s) : s[i] = c /\ \A j \in (i + 1)..Len(s) : s[j] # c
  ELSE 0

\* filepath.Base, for a path that does not end in "/"
Base(path) ==
  IF path = <<>> THEN <<".">>
  ELSE SubSeq(path, LastIndex(path, "/") + 1, Len(path))

\* filepath.Ext: from the last "." of the last element on, or empty
Ext(path) ==
  IF LastIndex(Base(path), ".") = 0 THEN <<>>
  ELSE SubSeq(Base(path), LastIndex(Base(path), "."), Len(Base(path)))

\* filepath.Dir, for a clean path
Dir(path) ==
  IF LastIndex(path, "/") = 0 THEN <<".">>
  ELSE IF LastIndex(path, "/") = 1 THEN <<"/">>
       ELSE SubSeq(path, 1, LastIndex(path, "/") - 1)

\* filepath.Join(dir, name), for a clean dir and a plain name
PathJoin(dir, name) ==
  IF dir = <<>> \/ dir = <<".">> THEN name
  ELSE IF dir = <<"/">> THEN dir \o name
       ELSE dir \o <<"/">> \o name

\* a faulty MapJellyfinPathToContainer: the prefix is replaced where it first
\* occurs, be it at the start of the path or not
MapJellyfinPathToContainerAnywhere(c, jellyfinPath) ==
  IF c.JellyfinPathPrefix = <<>> \/ c.ContainerPathPrefix = <<>> THEN jellyfinPath
  ELSE ReplaceFirst(jellyfinPath, c.JellyfinPathPrefix, c.ContainerPathPrefix)

\* Config.MapJellyfinPathToContainer
MapJellyfinPathToContainer(c, jellyfinPath) ==
  IF c.JellyfinPathPrefix = <<>> \/ c.ContainerPathPrefix = <<>> THEN jellyfinPath
  ELSE IF HasPrefix(jellyfinPath, c.JellyfinPathPrefix)
       THEN ReplaceFirst(jellyfinPath, c.JellyfinPathPrefix, c.ContainerPathPrefix)
       ELSE jellyfinPath

\* a faulty SubtitleFileName: the video's extension is not cut off
SubtitleFileNameKeepsExt(videoPath, language) ==
  Base(videoPath) \o <<".", language, ".", "srt">>

\* generateSubtitlePath: fileName
SubtitleFileName(videoPath, language) ==
  TrimSuffix(Base(videoPath), Ext(videoPath)) \o <<".", language, ".", "srt">>

\* generateSubtitlePath: mediaDir
MediaDir(c, videoPath) == Dir(MapJellyfinPathToContainer(c, videoPath))

\* generateSubtitlePath: mediaSubtitlePath
MediaSubtitlePath(c, videoPath, language) ==
  PathJoin(MediaDir(c, videoPath), SubtitleFileName(videoPath, language))

\* generateSubtitlePath: fallbackPath
FallbackPath(c, videoPath, language) ==
  PathJoin(c.SubtitleDirectory, SubtitleFileName(videoPath, language))

\* canWriteToDirectory: tempFile
TempFile(dirPath) == PathJoin(dirPath, <<".", "subtitle-hunter-write-test">>)

(***************************************************************************)
(* internal/jellyfin/client.go: the search query.                          *)
(***************************************************************************)

\* Client.GetSearchQuery
GetSearchQuery(item) ==
  IF item.Type = "Episode" /\ item.SeriesName # <<>>
  THEN item.SeriesName \o <<" ", "S">> \o Pad2(item.ParentIndexNumber)
         \o <<"E">> \o Pad2(item.IndexNumber)
  ELSE IF item.Type = "Movie" /\ item.ProductionYear > 0
       THEN item.Name \o <<" ">> \o Itoa(item.ProductionYear)
       ELSE item.Name

(***************************************************************************)
(* The world one server runs in: its configuration, the catalog's items,   *)
(* the provider's files, the filesystem.                                   *)
(***************************************************************************)

\* the most candidates one provider search returns
MaxCands == 2

\* config.Load: ENABLE_DIRECT_SAVE either way; the two path prefixes set as
\* deployed or left at their default, the empty string; SUBTITLE_DIRECTORY
Configs ==
  { [EnableDirectSave    |-> d,
     JellyfinPathPrefix  |-> m[1],
     ContainerPathPrefix |-> m[2],
     SubtitleDirectory   |-> <<"/", "a">>] :
      d \in BOOLEAN, m \in { <<<<"/", "d">>, <<"/", "m">>>>, <<<<>>, <<>>>> } }

\* jellyfin.MediaItem, the fields the pipeline reads: an episode with a media
\* source (its nominal path is another file) and a movie with none
Items ==
  { [ID |-> "ep42", Name |-> <<"P">>, Type |-> "Episode",
     SeriesName |-> <<"F", "o", "o">>, ParentIndexNumber |-> 2, IndexNumber |-> 5,
     ProductionYear |-> 0,
     Path |-> <<"/", "d", "/", "F", "/", "x", ".", "strm">>,
     MediaSources |-> << [Path |-> <<"/", "d", "/", "F", "/", "S02E05", ".", "mkv">>] >>],
    [ID |-> "mv7", Name |-> <<"B", "a", "r">>, Type |-> "Movie",
     SeriesName |-> <<>>, ParentIndexNumber |-> 0, IndexNumber |-> 0,
     ProductionYear |-> 1999,
     Path |-> <<"/", "d", "/", "F", "/", "Bar", ".", "mkv">>,
     MediaSources |-> <<>>] }

\* the value of the item variable before GetItem has returned
NoItem ==
  [ID |-> "", Name |-> <<>>, Type |-> "", SeriesName |-> <<>>,
   ParentIndexNumber |-> 0, IndexNumber |-> 0, ProductionYear |-> 0,
   Path |-> <<>>, MediaSources |-> <<>>]

\* a faulty VideoPath: the last media source is taken
VideoPathLastSource(item) ==
  IF Len(item.MediaSources) > 0
  THEN item.MediaSources[Len(item.MediaSources)].Path
  ELSE item.Path

\* ProcessHandler: videoPath
VideoPath(item) ==
  IF Len(item.MediaSources) > 0 THEN item.MediaSources[1].Path ELSE item.Path

\* the subtitle files the provider serves, by file id: two well-formed
\* entries (a tag and a two-line text among them); CRLF line ends, a block
\* without a timing line and one entry; nothing but a malformed block
ProviderFiles ==
  << <<"1", "\n", "T1", " ", "-->", " ", "T2", "\n", "<", "i", ">", "h", "i", "<", "/", "i", ">",
       "\n", "\n",
       "2", "\n", "T2", " ", "-->", " ", "T3", "\n", "a", "\n", "b", "\n">>,
     <<"x", "\r", "\n", "y", "\r", "\n", "z", "\r", "\n", "\r", "\n",
       "7", "\r", "\n", "T3", "-->", "T4", "\r", "\n", "o", "k", "\r", "\n">>,
     <<"1", "\n", "h", "i", "\n">> >>

FileIDs == 1..Len(ProviderFiles)

\* opensubtitles.Subtitle, the field DownloadSubtitle reads
Subtitle(fileID) == [FileID |-> fileID]

NoSubtitle == Subtitle(0)

\* what one SearchSubtitles call can return: an error, or up to MaxCands
\* candidates in provider order, starting at any file
SearchResults ==
  { [err |-> TRUE, subtitles |-> <<>>] } \cup
  { [err |-> FALSE,
     subtitles |-> [i \in 1..n |-> Subtitle(((first + i - 2) % Len(ProviderFiles)) + 1)]]
      : n \in 0..MaxCands, first \in FileIDs }

\* a faulty FindBestSubtitle: it takes the last candidate, not the first
FindBestSubtitleLast(result) ==
  IF result.err THEN [err |-> TRUE, subtitle |-> NoSubtitle]
  ELSE IF Len(result.subtitles) = 0 THEN [err |-> TRUE, subtitle |-> NoSubtitle]
       ELSE [err |-> FALSE, subtitle |-> result.subtitles[Len(result.subtitles)]]

\* Client.FindBestSubtitle, given what SearchSubtitles returned
FindBestSubtitle(result) ==
  IF result.err THEN [err |-> TRUE, subtitle |-> NoSubtitle]
  ELSE IF Len(result.subtitles) = 0 THEN [err |-> TRUE, subtitle |-> NoSubtitle]
       ELSE [err |-> FALSE, subtitle |-> result.subtitles[1]]

(***************************************************************************)
(* The filesystem: the directories that exist, those of them a file can be *)
(* created in, the absent ones MkdirAll can create, the files with their   *)
(* bytes, and the files that cannot be opened for writing.                 *)
(***************************************************************************)

DirStates == {"writable", "readonly", "absent", "uncreatable"}

\* every path a request can be asked to write a subtitle to next to the media
MediaTargets(c) ==
  { MediaSubtitlePath(c, VideoPath(it), "zh-Hant") : it \in Items }

\* the filesystem in which each directory of ds is in the state st gives it,
\* and the media targets exist read-only when roTargets
FileSystem(c, st, roTargets) ==
  [dirs      |-> {d \in DOMAIN st : st[d] \in {"writable", "readonly"}},
   writable  |-> {d \in DOMAIN st : st[d] = "writable"},
   creatable |-> {d \in DOMAIN st : st[d] = "absent"},
   files     |-> IF roTargets
                 THEN {[path |-> p, data |-> <<"o", "l", "d">>] : p \in MediaTargets(c)}
                 ELSE {},
   readonly  |-> IF roTargets THEN MediaTargets(c) ELSE {}]

\* the directories a request touches under configuration c
WorldDirs(c) ==
  {MediaDir(c, VideoPath(it)) : it \in Items} \cup {c.SubtitleDirectory}

\* the filesystems a server can start in: a read-only target needs its
\* directory to exist
InitialFileSystems(c) ==
  { FileSystem(c, x[1], x[2]) :
      x \in { y \in [WorldDirs(c) -> DirStates] \X BOOLEAN :
                y[2] => \A p \in MediaTargets(c) :
                          y[1][Dir(p)] \in {"writable", "readonly"} } }

\* os.Stat(dirPath) reports that the directory exists
DirExists(f, dirPath) == dirPath \in f.dirs

\* os.MkdirAll(dirPath) returns a nil error
MkdirAllOK(f, dirPath) == dirPath \in f.dirs \/ dirPath \in f.creatable

\* the filesystem after os.MkdirAll(dirPath): a directory it creates is the
\* server's own, so files can be created in it
MkdirAll(f, dirPath) ==
  IF dirPath \in f.dirs \/ dirPath \notin f.creatable THEN f
  ELSE [f EXCEPT !.dirs = @ \cup {dirPath},
                 !.writable = @ \cup {dirPath},
                 !.creatable = @ \ {dirPath}]

FileExists(f, path) == \E x \in f.files : x.path = path

\* a file at path can be opened with O_WRONLY|O_CREATE|O_TRUNC: an existing
\* file when it is writable, a new one when its directory takes new files
OpenForWriteOK(f, path) ==
  IF FileExists(f, path) THEN path \notin f.readonly
  ELSE Dir(path) \in f.dirs /\ Dir(path) \in f.writable

\* the filesystem after the file at path was created or truncated and data
\* written to it
PutFile(f, path, data) ==
  [f EXCEPT !.files = {x \in @ : x.path # path} \cup {[path |-> path, data |-> data]}]

\* the filesystem after os.Remove(path), whose error is ignored: the file
\* goes when its directory lets entries be removed
RemoveFile(f, path) ==
  IF Dir(path) \in f.writable
  THEN [f EXCEPT !.files = {x \in @ : x.path # path}]
  ELSE f

(***************************************************************************)
(* The server: one ProcessHandler call per request, each on its own        *)
(* goroutine of net/http.                                                  *)
(***************************************************************************)
VARIABLES
  config,   \* Handler.Config, fixed when main builds the handler
  fs,       \* the filesystem the server shares with every request
  req,      \* per request: the locals of ProcessHandler and of its callees
  events    \* per request: the calls it has made and their results, in order

vars == <<config, fs, req, events>>

\* the locals of a request that has not been read yet
NewRequest ==
  [pc           |-> "ProcessHandler",
   itemID       |-> "",
   item         |-> NoItem,
   videoPath    |-> <<>>,
   searchQuery  |-> <<>>,
   subtitle     |-> NoSubtitle,
   translating  |-> FALSE,    \* inside translateAndSaveSubtitle
   language     |-> "",
   content      |-> <<>>,     \* the bytes to write
   entries      |-> <<>>,
   translated   |-> <<>>,
   i            |-> 0,        \* TranslateEntries: the entry at hand, from 1
   attempt      |-> 0,        \* translateWithRetry: attempt
   subtitlePath |-> <<>>,
   saveLocation |-> "",
   resp         |-> [code |-> 0, msg |-> "", detail |-> ""]]

\* the requests of one run of the server
Requests == {1}

Init ==
  /\ config \in Configs
  /\ fs \in InitialFileSystems(config)
  /\ req = [r \in Requests |-> NewRequest]
  /\ events = [r \in Requests |-> <<>>]

Event(op, arg, ok) == [op |-> op, arg |-> arg, ok |-> ok]

\* request r goes on with locals rec, having made the calls evs
Continue(r, rec, evs) ==
  /\ req' = [req EXCEPT ![r] = rec]
  /\ events' = [events EXCEPT ![r] = @ \o evs]

\* http.Error / w.Write: request r, having made the calls evs, answers
Respond(r, evs, code, msg, detail) ==
  Continue(r,
           [req[r] EXCEPT !.pc = "done",
                          !.resp = [code |-> code, msg |-> msg, detail |-> detail]],
           evs \o <<Event("Respond", code, code = 200)>>)

\* a faulty ProcessHandler: the item is looked up in the catalog before the
\* method and the item id are checked
ProcessHandlerLooksUpFirst(r) ==
  /\ req[r].pc = "ProcessHandler"
  /\ \E method \in {"POST", "GET"}, itemID \in {"", "ep42", "mv7"} :
       IF method # "POST"
       THEN Respond(r, <<Event("GetItem", <<itemID, "">>, TRUE)>>,
                    405, "Method not allowed", "")
       ELSE IF itemID = ""
            THEN Respond(r, <<Event("GetItem", <<itemID, "API error">>, FALSE)>>,
                         400, "Item ID required", "")
            ELSE Continue(r, [req[r] EXCEPT !.pc = "GetItem", !.itemID = itemID], <<>>)
  /\ UNCHANGED <<config, fs>>

\* ProcessHandler, to the call of GetItem: the method and the item id of the
\* request are the caller's
ProcessHandler(r) ==
  /\ req[r].pc = "ProcessHandler"
  /\ \E method \in {"POST", "GET"}, itemID \in {"", "ep42", "mv7"} :
       IF method # "POST"
       THEN Respond(r, <<>>, 405, "Method not allowed", "")
       ELSE IF itemID = ""
            THEN Respond(r, <<>>, 400, "Item ID required", "")
            ELSE Continue(r, [req[r] EXCEPT !.pc = "GetItem", !.itemID = itemID], <<>>)
  /\ UNCHANGED <<config, fs>>

\* the errors Client.GetItem returns: the request could not be sent, the
\* body could not be read, the status was not 200, the body was not an item
GetItemErrors ==
  {"failed to fetch item", "failed to read response", "API error", "failed to parse item"}

\* a faulty GetItemFrom: the return after the error of GetItem is missing,
\* and the handler goes on with the item it does not have
GetItemFromGoesOn(r, items) ==
  /\ req[r].pc = "GetItem"
  /\ \/ \E e \in GetItemErrors :
          Continue(r, [req[r] EXCEPT !.pc = "SearchTarget"],
                   <<Event("GetItem", <<req[r].itemID, e>>, FALSE)>>)
     \/ \E item \in items :
          /\ item.ID = req[r].itemID
          /\ Continue(r,
                      [req[r] EXCEPT !.pc = "SearchTarget",
                                     !.item = item,
                                     !.videoPath = VideoPath(item),
                                     !.searchQuery = GetSearchQuery(item)],
                      <<Event("GetItem", <<req[r].itemID, "">>, TRUE)>>)
  /\ UNCHANGED <<config, fs>>

\* ProcessHandler: GetItem returns from a catalog holding items; videoPath
\* and searchQuery
GetItemFrom(r, items) ==
  /\ req[r].pc = "GetItem"
  /\ \/ \E e \in GetItemErrors :
          Respond(r, <<Event("GetItem", <<req[r].itemID, e>>, FALSE)>>,
                  500, "Failed to get item details", e)
     \/ \E item \in items :
          /\ item.ID = req[r].itemID
          /\ Continue(r,
                      [req[r] EXCEPT !.pc = "SearchTarget",
                                     !.item = item,
                                     !.videoPath = VideoPath(item),
                                     !.searchQuery = GetSearchQuery(item)],
                      <<Event("GetItem", <<req[r].itemID, "">>, TRUE)>>)
  /\ UNCHANGED <<config, fs>>

\* ProcessHandler: GetItem returns
GetItem(r) == GetItemFrom(r, Items)

\* a faulty SearchTarget: the file is saved under the tag that was searched
SearchTargetSavesSearchTag(r) ==
  /\ req[r].pc = "SearchTarget"
  /\ \E result \in SearchResults :
       LET best == FindBestSubtitle(result)
           ev   == Event("Search", <<"zh-TW", result.subtitles>>, ~result.err)
       IN IF ~best.err /\ best.subtitle # NoSubtitle
          THEN Continue(r, [req[r] EXCEPT !.pc = "DownloadDirect",
                                          !.subtitle = best.subtitle,
                                          !.language = "zh-TW"],
                        <<ev>>)
          ELSE Continue(r, [req[r] EXCEPT !.pc = "SearchFallback"], <<ev>>)
  /\ UNCHANGED <<config, fs>>

\* a faulty SearchTarget: an error of the search ends the request, where an
\* empty list goes on to the fallback language
SearchTargetFailsOnError(r) ==
  /\ req[r].pc = "SearchTarget"
  /\ \E result \in SearchResults :
       LET best == FindBestSubtitle(result)
           ev   == Event("Search", <<"zh-TW", result.subtitles>>, ~result.err)
       IN IF result.err
          THEN Respond(r, <<ev>>, 500, "Search failed", "search")
          ELSE IF best.subtitle # NoSubtitle
          THEN Continue(r, [req[r] EXCEPT !.pc = "DownloadDirect",
                                          !.subtitle = best.subtitle,
                                          !.language = "zh-Hant"],
                        <<ev>>)
          ELSE Continue(r, [req[r] EXCEPT !.pc = "SearchFallback"], <<ev>>)
  /\ UNCHANGED <<config, fs>>

\* ProcessHandler: FindBestSubtitle(searchQuery, "zh-TW") returns
SearchTarget(r) ==
  /\ req[r].pc = "SearchTarget"
  /\ \E result \in SearchResults :
       LET best == FindBestSubtitle(result)
           ev   == Event("Search", <<"zh-TW", result.subtitles>>, ~result.err)
       IN IF ~best.err /\ best.subtitle # NoSubtitle
          THEN Continue(r, [req[r] EXCEPT !.pc = "DownloadDirect",
                                          !.subtitle = best.subtitle,
                                          !.language = "zh-Hant"],
                        <<ev>>)
          ELSE Continue(r, [req[r] EXCEPT !.pc = "SearchFallback"], <<ev>>)
  /\ UNCHANGED <<config, fs>>

\* a faulty SearchFallback: the translated file is saved under the tag of
\* the language that was searched
SearchFallbackSavesSearchTag(r) ==
  /\ req[r].pc = "SearchFallback"
  /\ \E result \in SearchResults :
       LET best == FindBestSubtitle(result)
           ev   == Event("Search", <<"en", result.subtitles>>, ~result.err)
       IN IF best.err
          THEN Respond(r, <<ev>>, 404, "No subtitles found", "search")
          ELSE Continue(r, [req[r] EXCEPT !.pc = "DownloadFallback",
                                          !.subtitle = best.subtitle,
                                          !.translating = TRUE,
                                          !.language = "en"],
                        <<ev>>)
  /\ UNCHANGED <<config, fs>>

\* a faulty SearchFallback: the return after the 404 branch is missing its
\* effect, and the handler goes on to the metadata refresh
SearchFallbackGoesOn(r) ==
  /\ req[r].pc = "SearchFallback"
  /\ \E result \in SearchResults :
       LET best == FindBestSubtitle(result)
           ev   == Event("Search", <<"en", result.subtitles>>, ~result.err)
       IN IF best.err
          THEN Continue(r, [req[r] EXCEPT !.pc = "RefreshMetadata"], <<ev>>)
          ELSE Continue(r, [req[r] EXCEPT !.pc = "DownloadFallback",
                                          !.subtitle = best.subtitle,
                                          !.translating = TRUE,
                                          !.language = "zh-Hant"],
                        <<ev>>)
  /\ UNCHANGED <<config, fs>>

\* ProcessHandler: FindBestSubtitle(searchQuery, "en") returns
SearchFallback(r) ==
  /\ req[r].pc = "SearchFallback"
  /\ \E result \in SearchResults :
       LET best == FindBestSubtitle(result)
           ev   == Event("Search", <<"en", result.subtitles>>, ~result.err)
       IN IF best.err
          THEN Respond(r, <<ev>>, 404, "No subtitles found", "search")
          ELSE Continue(r, [req[r] EXCEPT !.pc = "DownloadFallback",
                                          !.subtitle = best.subtitle,
                                          !.translating = TRUE,
                                          !.language = "zh-Hant"],
                        <<ev>>)
  /\ UNCHANGED <<config, fs>>

\* a faulty downloadAndSaveSubtitle: the downloads directory is created
\* before the file is downloaded
downloadAndSaveSubtitleMakesDirFirst(r) ==
  /\ req[r].pc = "DownloadDirect"
  /\ fs' = MkdirAll(fs, config.SubtitleDirectory)
  /\ \E ok \in BOOLEAN :
       LET ev == Event("Download", req[r].subtitle.FileID, ok)
       IN IF ~ok
          THEN Respond(r, <<ev>>, 500, "Failed to save Chinese subtitle",
                       "failed to download subtitle")
          ELSE Continue(r, [req[r] EXCEPT !.pc = "generateSubtitlePath",
                                          !.content = ProviderFiles[req[r].subtitle.FileID]],
                        <<ev>>)
  /\ UNCHANGED config

\* downloadAndSaveSubtitle, to the call of generateSubtitlePath:
\* DownloadSubtitle returns
downloadAndSaveSubtitle(r) ==
  /\ req[r].pc = "DownloadDirect"
  /\ \E ok \in BOOLEAN :
       LET ev == Event("Download", req[r].subtitle.FileID, ok)
       IN IF ~ok
          THEN Respond(r, <<ev>>, 500, "Failed to save Chinese subtitle",
                       "failed to download subtitle")
          ELSE Continue(r, [req[r] EXCEPT !.pc = "generateSubtitlePath",
                                          !.content = ProviderFiles[req[r].subtitle.FileID]],
                        <<ev>>)
  /\ UNCHANGED <<config, fs>>

\* a faulty TranslatedEntry: the two timestamps change places
TranslatedEntrySwapsTimes(entry, text) ==
  [Index     |-> entry.Index,
   StartTime |-> entry.EndTime,
   EndTime   |-> entry.StartTime,
   Text      |-> text]

\* TranslateEntries: the entry appended for entry, whose text is now text
TranslatedEntry(entry, text) ==
  [Index     |-> entry.Index,
   StartTime |-> entry.StartTime,
   EndTime   |-> entry.EndTime,
   Text      |-> text]

\* a faulty AfterEntry: the attempt counter is not reset for the next entry
AfterEntryKeepsAttempt(rec, text) ==
  LET out == Append(rec.translated, TranslatedEntry(rec.entries[rec.i], text))
  IN IF rec.i < Len(rec.entries)
     THEN [rec EXCEPT !.pc = "Translate", !.translated = out, !.i = rec.i + 1]
     ELSE [rec EXCEPT !.pc = "generateSubtitlePath", !.translated = out,
                      !.content = Format(out)]

\* TranslateEntries, from the append of the entry at hand (its text is now
\* text) to the next call of the translator; after the last entry
\* translateAndSaveSubtitle formats the entries and calls
\* generateSubtitlePath
AfterEntry(rec, text) ==
  LET out == Append(rec.translated, TranslatedEntry(rec.entries[rec.i], text))
  IN IF rec.i < Len(rec.entries)
     THEN [rec EXCEPT !.pc = "Translate", !.translated = out,
                      !.i = rec.i + 1, !.attempt = 1]
     ELSE [rec EXCEPT !.pc = "generateSubtitlePath", !.translated = out,
                      !.content = Format(out)]

\* translateAndSaveSubtitle, to the call of TranslateEntries:
\* DownloadSubtitle returns, Parse
translateAndSaveSubtitle(r) ==
  /\ req[r].pc = "DownloadFallback"
  /\ \E ok \in BOOLEAN :
       LET ev == Event("Download", req[r].subtitle.FileID, ok)
       IN IF ~ok
          THEN Respond(r, <<ev>>, 500, "Failed to translate subtitle",
                       "failed to download English subtitle")
          ELSE Continue(r, [req[r] EXCEPT !.pc = "TranslateEntries",
                                          !.entries = Parse(ProviderFiles[req[r].subtitle.FileID])],
                        <<ev>>)
  /\ UNCHANGED <<config, fs>>

\* a faulty TranslateEntries: a document without entries is an error
TranslateEntriesRefusesEmpty(r) ==
  /\ req[r].pc = "TranslateEntries"
  /\ LET call == Event("TranslateEntries", req[r].entries, req[r].entries # <<>>)
     IN IF req[r].entries = <<>>
        THEN Respond(r, <<call>>, 500, "Failed to translate subtitle", "no entries")
        ELSE Continue(r, [req[r] EXCEPT !.pc = "Translate", !.i = 1, !.attempt = 1],
                      <<call>>)
  /\ UNCHANGED <<config, fs>>

\* TranslateEntries, to the first call of the translator; for no entries it
\* returns at once, and translateAndSaveSubtitle formats and calls
\* generateSubtitlePath
TranslateEntries(r) ==
  /\ req[r].pc = "TranslateEntries"
  /\ LET call == Event("TranslateEntries", req[r].entries, TRUE)
     IN IF req[r].entries = <<>>
        THEN Continue(r, [req[r] EXCEPT !.pc = "generateSubtitlePath",
                                        !.content = Format(<<>>)],
                      <<call>>)
        ELSE Continue(r, [req[r] EXCEPT !.pc = "Translate", !.i = 1, !.attempt = 1],
                      <<call>>)
  /\ UNCHANGED <<config, fs>>

\* a faulty FallbackText: the empty text translateWithRetry returns with its
\* error is kept
FallbackTextEmpty(entry) == <<>>

\* TranslateEntries: the text taken for an entry whose translation failed
FallbackText(entry) == entry.Text

\* a faulty translateWithRetryOn: one attempt more is made before the entry
\* is given up
translateWithRetryOnOneMore(r, response) ==
  /\ req[r].pc = "Translate"
  /\ LET entry == req[r].entries[req[r].i]
         res   == TranslateToChineseTraditional(entry.Text, response)
         ev    == Event("Translate", <<req[r].i, req[r].attempt>>, ~res.err)
     IN IF ~res.err
        THEN Continue(r, AfterEntry(req[r], res.text), <<ev>>)
        ELSE IF req[r].attempt <= MaxRetries
             THEN Continue(r, [req[r] EXCEPT !.pc = "Sleep", !.attempt = @ + 1], <<ev>>)
             ELSE Continue(r, AfterEntry(req[r], FallbackText(entry)), <<ev>>)
  /\ UNCHANGED <<config, fs>>

\* translateWithRetry: one call of the translator returns, the backend
\* having answered with response; on an error the
\* loop goes on to the next attempt's wait, or gives up and TranslateEntries
\* takes the original text
translateWithRetryOn(r, response) ==
  /\ req[r].pc = "Translate"
  /\ LET entry == req[r].entries[req[r].i]
         res   == TranslateToChineseTraditional(entry.Text, response)
         ev    == Event("Translate", <<req[r].i, req[r].attempt>>, ~res.err)
     IN IF ~res.err
        THEN Continue(r, AfterEntry(req[r], res.text), <<ev>>)
        ELSE IF req[r].attempt + 1 <= MaxRetries
             THEN Continue(r, [req[r] EXCEPT !.pc = "Sleep", !.attempt = @ + 1], <<ev>>)
             ELSE Continue(r, AfterEntry(req[r], FallbackText(entry)), <<ev>>)
  /\ UNCHANGED <<config, fs>>

\* translateWithRetry: one call of the translator returns, the backend
\* having answered in any way
translateWithRetry(r) ==
  \E response \in BackendResponses : translateWithRetryOn(r, response)

\* a faulty Sleep: time.Sleep never returns
SleepNeverReturns(r) ==
  /\ req[r].pc = "Sleep"
  /\ UNCHANGED vars

\* translateWithRetry: time.Sleep(waitTime) returns
Sleep(r) ==
  /\ req[r].pc = "Sleep"
  /\ Continue(r, [req[r] EXCEPT !.pc = "Translate"],
              <<Event("Sleep", WaitTime(req[r].attempt), TRUE)>>)
  /\ UNCHANGED <<config, fs>>

\* a faulty generateSubtitlePath: the media directory is probed whatever
\* Config.EnableDirectSave says
generateSubtitlePathAlwaysProbes(r) ==
  /\ req[r].pc = "generateSubtitlePath"
  /\ Continue(r, [req[r] EXCEPT !.pc = "Stat"], <<>>)
  /\ UNCHANGED <<config, fs>>

\* generateSubtitlePath, to its first filesystem call
generateSubtitlePath(r) ==
  /\ req[r].pc = "generateSubtitlePath"
  /\ IF config.EnableDirectSave
     THEN Continue(r, [req[r] EXCEPT !.pc = "Stat"], <<>>)
     ELSE Continue(r, [req[r] EXCEPT !.pc = "MkdirDownloads"], <<>>)
  /\ UNCHANGED <<config, fs>>

\* canWriteToDirectory(mediaDir): os.Stat returns
Stat(r) ==
  /\ req[r].pc = "Stat"
  /\ LET dirPath == MediaDir(config, req[r].videoPath)
         ev      == Event("Stat", dirPath, DirExists(fs, dirPath))
     IN IF DirExists(fs, dirPath)
        THEN Continue(r, [req[r] EXCEPT !.pc = "Create"], <<ev>>)
        ELSE Continue(r, [req[r] EXCEPT !.pc = "MkdirMedia"], <<ev>>)
  /\ UNCHANGED <<config, fs>>

\* canWriteToDirectory(mediaDir): os.MkdirAll returns
MkdirMedia(r) ==
  /\ req[r].pc = "MkdirMedia"
  /\ LET dirPath == MediaDir(config, req[r].videoPath)
         ev      == Event("MkdirAll", dirPath, MkdirAllOK(fs, dirPath))
     IN /\ fs' = MkdirAll(fs, dirPath)
        /\ IF MkdirAllOK(fs, dirPath)
           THEN Continue(r, [req[r] EXCEPT !.pc = "Create"], <<ev>>)
           ELSE Continue(r, [req[r] EXCEPT !.pc = "MkdirDownloads"], <<ev>>)
  /\ UNCHANGED config

\* a faulty Create: the marker file is opened with O_EXCL, and the call
\* fails when the file is there
CreateExclusive(r) ==
  /\ req[r].pc = "Create"
  /\ \E tempFile \in {TempFile(MediaDir(config, req[r].videoPath))} :
       LET ok == OpenForWriteOK(fs, tempFile) /\ ~FileExists(fs, tempFile)
           ev == Event("Create", tempFile, ok)
       IN IF ok
          THEN /\ fs' = PutFile(fs, tempFile, <<>>)
               /\ Continue(r, [req[r] EXCEPT !.pc = "Remove"], <<ev>>)
          ELSE /\ fs' = fs
               /\ Continue(r, [req[r] EXCEPT !.pc = "MkdirDownloads"], <<ev>>)
  /\ UNCHANGED config

\* canWriteToDirectory(mediaDir): os.Create(tempFile) returns
Create(r) ==
  /\ req[r].pc = "Create"
  /\ \E tempFile \in {TempFile(MediaDir(config, req[r].videoPath))} :
       LET ev == Event("Create", tempFile, OpenForWriteOK(fs, tempFile))
       IN IF OpenForWriteOK(fs, tempFile)
          THEN /\ fs' = PutFile(fs, tempFile, <<>>)
               /\ Continue(r, [req[r] EXCEPT !.pc = "Remove"], <<ev>>)
          ELSE /\ fs' = fs
               /\ Continue(r, [req[r] EXCEPT !.pc = "MkdirDownloads"], <<ev>>)
  /\ UNCHANGED config

\* canWriteToDirectory(mediaDir): file.Close, os.Remove(tempFile), return
\* true; generateSubtitlePath returns the media path
Remove(r) ==
  /\ req[r].pc = "Remove"
  /\ \E tempFile \in {TempFile(MediaDir(config, req[r].videoPath))} :
       /\ fs' = RemoveFile(fs, tempFile)
       /\ Continue(r,
                   [req[r] EXCEPT !.pc = "WriteFile",
                                  !.subtitlePath =
                                     MediaSubtitlePath(config, req[r].videoPath, req[r].language),
                                  !.saveLocation = "media"],
                   <<Event("Remove", tempFile, TRUE)>>)
  /\ UNCHANGED config

\* a faulty MkdirDownloads: the downloads directory is probed with the
\* marker file, as the media directory is
MkdirDownloadsProbes(r) ==
  /\ req[r].pc = "MkdirDownloads"
  /\ \E downloadsDir \in {config.SubtitleDirectory} :
       \E tempFile \in {TempFile(downloadsDir)} :
         /\ fs' = MkdirAll(fs, downloadsDir)
         /\ Continue(r,
                     [req[r] EXCEPT !.pc = "WriteFile",
                                    !.subtitlePath =
                                       FallbackPath(config, req[r].videoPath, req[r].language),
                                    !.saveLocation = "downloads"],
                     <<Event("MkdirAll", downloadsDir, MkdirAllOK(fs, downloadsDir)),
                       Event("Create", tempFile, OpenForWriteOK(MkdirAll(fs, downloadsDir), tempFile))>>)
  /\ UNCHANGED config

\* a faulty MkdirDownloads: the error of os.MkdirAll is answered as 500
MkdirDownloadsSurfaced(r) ==
  /\ req[r].pc = "MkdirDownloads"
  /\ LET downloadsDir == config.SubtitleDirectory
         ev           == Event("MkdirAll", downloadsDir, MkdirAllOK(fs, downloadsDir))
     IN /\ fs' = MkdirAll(fs, downloadsDir)
        /\ IF MkdirAllOK(fs, downloadsDir)
           THEN Continue(r,
                         [req[r] EXCEPT !.pc = "WriteFile",
                                        !.subtitlePath =
                                           FallbackPath(config, req[r].videoPath, req[r].language),
                                        !.saveLocation = "downloads"],
                         <<ev>>)
           ELSE Respond(r, <<ev>>, 500, "Failed to save subtitle",
                        "failed to create downloads directory")
  /\ UNCHANGED config

\* generateSubtitlePath: os.MkdirAll(downloadsDir) returns, its error only
\* logged; generateSubtitlePath returns the downloads path
MkdirDownloads(r) ==
  /\ req[r].pc = "MkdirDownloads"
  /\ LET downloadsDir == config.SubtitleDirectory
     IN /\ fs' = MkdirAll(fs, downloadsDir)
        /\ Continue(r,
                    [req[r] EXCEPT !.pc = "WriteFile",
                                   !.subtitlePath =
                                      FallbackPath(config, req[r].videoPath, req[r].language),
                                   !.saveLocation = "downloads"],
                    <<Event("MkdirAll", downloadsDir, MkdirAllOK(fs, downloadsDir))>>)
  /\ UNCHANGED config

\* downloadAndSaveSubtitle / translateAndSaveSubtitle: os.WriteFile returns;
\* on an error ProcessHandler answers 500
WriteFile(r) ==
  /\ req[r].pc = "WriteFile"
  /\ LET path == req[r].subtitlePath
         ev   == Event("WriteFile", path, OpenForWriteOK(fs, path))
     IN IF OpenForWriteOK(fs, path)
        THEN /\ fs' = PutFile(fs, path, req[r].content)
             /\ Continue(r, [req[r] EXCEPT !.pc = "RefreshMetadata"], <<ev>>)
        ELSE /\ fs' = fs
             /\ Respond(r, <<ev>>, 500,
                        IF req[r].translating THEN "Failed to translate subtitle"
                                              ELSE "Failed to save Chinese subtitle",
                        "failed to write subtitle file")
  /\ UNCHANGED config

\* a faulty SuccessMessage: the answer names the media directory whatever
\* the saveLocation
SuccessMessageAlwaysMedia(saveLocation) == "saved to media directory"

\* the body of the answer 200, by saveLocation (the downloads message names
\* Config.SubtitleDirectory)
SuccessMessage(saveLocation) ==
  IF saveLocation = "media"
  THEN "saved to media directory"
  ELSE "saved to downloads directory"

\* a faulty RefreshMetadata step: the refresh's error is answered as 500
RefreshMetadataSurfaced(r) ==
  /\ req[r].pc = "RefreshMetadata"
  /\ \E ok \in BOOLEAN :
       IF ok
       THEN Respond(r, <<Event("RefreshMetadata", req[r].itemID, ok)>>,
                    200, SuccessMessage(req[r].saveLocation), "")
       ELSE Respond(r, <<Event("RefreshMetadata", req[r].itemID, ok)>>,
                    500, "Failed to refresh metadata", "refresh")
  /\ UNCHANGED <<config, fs>>

\* ProcessHandler: RefreshMetadata returns, its error only logged; the
\* answer 200
RefreshMetadata(r) ==
  /\ req[r].pc = "RefreshMetadata"
  /\ \E ok \in BOOLEAN :
       Respond(r, <<Event("RefreshMetadata", req[r].itemID, ok)>>,
               200, SuccessMessage(req[r].saveLocation), "")
  /\ UNCHANGED <<config, fs>>

Next ==
  \/ \E r \in DOMAIN req : ProcessHandler(r)
  \/ \E r \in DOMAIN req : GetItem(r)
  \/ \E r \in DOMAIN req : SearchTarget(r)
  \/ \E r \in DOMAIN req : SearchFallback(r)
  \/ \E r \in DOMAIN req : downloadAndSaveSubtitle(r)
  \/ \E r \in DOMAIN req : translateAndSaveSubtitle(r)
  \/ \E r \in DOMAIN req : TranslateEntries(r)
  \/ \E r \in DOMAIN req : translateWithRetry(r)
  \/ \E r \in DOMAIN req : Sleep(r)
  \/ \E r \in DOMAIN req : generateSubtitlePath(r)
  \/ \E r \in DOMAIN req : Stat(r)
  \/ \E r \in DOMAIN req : MkdirMedia(r)
  \/ \E r \in DOMAIN req : Create(r)
  \/ \E r \in DOMAIN req : Remove(r)
  \/ \E r \in DOMAIN req : MkdirDownloads(r)
  \/ \E r \in DOMAIN req : WriteFile(r)
  \/ \E r \in DOMAIN req : RefreshMetadata(r)

Spec == Init /\ [][Next]_vars

\* every call a request makes returns in the end, and its goroutine goes on
SpecFair == Spec /\ WF_vars(Next)

(***************************************************************************)
(* TranslateEntries on its own: called with any entries, not only those    *)
(* Parse gives.                                                            *)
(***************************************************************************)

\* the most entries of a document given to TranslateEntries
MaxEntries == 2

\* entries a caller can pass: a plain one; one after a gap, its text with a
\* tag and a run of spaces; one with a negative index, its end before its
\* start, an empty text
EntryPool ==
  { [Index |-> 1, StartTime |-> "T1", EndTime |-> "T2", Text |-> <<"h", "i">>],
    [Index |-> 7, StartTime |-> "T2", EndTime |-> "T3",
     Text |-> <<"<", "b", ">", "a", " ", " ", "b">>],
    [Index |-> 0 - 3, StartTime |-> "T4", EndTime |-> "T1", Text |-> <<>>] }

EntrySeqs == UNION { [1..n -> EntryPool] : n \in 0..MaxEntries }

InitTranslate ==
  /\ config \in {c \in Configs : ~c.EnableDirectSave /\ c.JellyfinPathPrefix = <<>>}
  /\ fs = FileSystem(config, [d \in WorldDirs(config) |-> "writable"], FALSE)
  /\ \E entries \in EntrySeqs :
       req = [r \in Requests |->
                [NewRequest EXCEPT !.pc = "TranslateEntries",
                                   !.translating = TRUE,
                                   !.entries = entries]]
  /\ events = [r \in Requests |-> <<>>]

NextTranslate ==
  \/ \E r \in DOMAIN req : TranslateEntries(r)
  \/ \E r \in DOMAIN req : translateWithRetry(r)
  \/ \E r \in DOMAIN req : Sleep(r)

SpecTranslate == InitTranslate /\ [][NextTranslate]_vars

(***************************************************************************)
(* TranslateEntries against a backend whose replies are on record: the     *)
(* reply to the n-th attempt for an entry is the n-th of the schedule.     *)
(***************************************************************************)

\* the replies of the backend to the attempts 1 to MaxRetries for an entry
ReplySchedules == [1..MaxRetries -> BackendReplies]

InitBackend ==
  /\ config \in {c \in Configs : ~c.EnableDirectSave /\ c.JellyfinPathPrefix = <<>>}
  /\ fs = FileSystem(config, [d \in WorldDirs(config) |-> "writable"], FALSE)
  /\ \E entries \in EntrySeqs :
       req = [r \in Requests |->
                [NewRequest EXCEPT !.pc = "TranslateEntries",
                                   !.translating = TRUE,
                                   !.entries = entries]]
  /\ \E schedule \in ReplySchedules :
       events = [r \in Requests |-> <<Event("Backend", schedule, TRUE)>>]

\* translateWithRetry: one call of the translator returns, the backend
\* having answered as the schedule says
translateWithRetryScheduled(r) ==
  /\ req[r].pc = "Translate"
  /\ \E reply \in {events[r][1].arg[req[r].attempt]} :
       translateWithRetryOn(r, ResponseOf(reply))

NextBackend ==
  \/ \E r \in DOMAIN req : TranslateEntries(r)
  \/ \E r \in DOMAIN req : translateWithRetryScheduled(r)
  \/ \E r \in DOMAIN req : Sleep(r)

SpecBackend == InitBackend /\ [][NextBackend]_vars

(***************************************************************************)
(* The codec on its own: Parse, then Format of what Parse gave, on         *)
(* documents put together from blocks.                                     *)
(***************************************************************************)

\* the most blocks of a document
MaxBlocks == 2

\* the blocks of a document, as written (raw), each with what it holds when
\* it is well formed: its index, its two timestamps, and its text lines
\* joined by "\n".  Well formed: a plain block; a block with CRLF line ends,
\* a zero-padded index, no space around the arrow and two text lines; a
\* block whose text starts with a space; a block whose index line reads 0;
\* a block whose index line reads -2.  Malformed: no index line; no timing
\* line; no text line.
BlockPool ==
  { [raw |-> <<"1", "\n", "T1", " ", "-->", " ", "T2", "\n", "h", "i">>,
     wellFormed |-> TRUE, Index |-> 1, StartTime |-> "T1", EndTime |-> "T2",
     text |-> <<"h", "i">>],
    [raw |-> <<"0", "7", "\r", "\n", "T2", "-->", "T3", "\r", "\n", "a", "\r", "\n", "b">>,
     wellFormed |-> TRUE, Index |-> 7, StartTime |-> "T2", EndTime |-> "T3",
     text |-> <<"a", "\n", "b">>],
    [raw |-> <<"3", "\n", "T3", " ", "-->", " ", "T4", "\n", " ", "x">>,
     wellFormed |-> TRUE, Index |-> 3, StartTime |-> "T3", EndTime |-> "T4",
     text |-> <<" ", "x">>],
    [raw |-> <<"0", "\n", "T1", " ", "-->", " ", "T2", "\n", "z">>,
     wellFormed |-> TRUE, Index |-> 0, StartTime |-> "T1", EndTime |-> "T2",
     text |-> <<"z">>],
    [raw |-> <<"-", "2", "\n", "T2", " ", "-->", " ", "T3", "\n", "n">>,
     wellFormed |-> TRUE, Index |-> 0 - 2, StartTime |-> "T2", EndTime |-> "T3",
     text |-> <<"n">>],
    [raw |-> <<"T1", " ", "-->", " ", "T2", "\n", "h", "i", "\n", "y", "o">>,
     wellFormed |-> FALSE, Index |-> 0, StartTime |-> "", EndTime |-> "", text |-> <<>>],
    [raw |-> <<"4", "\n", "h", "i", "\n", "y", "o">>,
     wellFormed |-> FALSE, Index |-> 0, StartTime |-> "", EndTime |-> "", text |-> <<>>],
    [raw |-> <<"5", "\n", "T1", " ", "-->", " ", "T2">>,
     wellFormed |-> FALSE, Index |-> 0, StartTime |-> "", EndTime |-> "", text |-> <<>>] }

\* the blank lines between two blocks: one, one with CRLF line ends, two
BlockSeparators ==
  { <<"\n", "\n">>, <<"\r", "\n", "\r", "\n">>, <<"\n", "\n", "\n">> }

\* the end of a document: nothing, or a last line end
DocumentEnds == { <<>>, <<"\n">> }

RECURSIVE RawBlocks(_)
RawBlocks(blocks) ==
  IF blocks = <<>> THEN <<>> ELSE <<Head(blocks).raw>> \o RawBlocks(Tail(blocks))

\* the request holds a document, of up to MaxBlocks blocks, that a download
\* has returned; the blocks it was put together from are on record
InitCodec ==
  /\ config \in {c \in Configs : ~c.EnableDirectSave /\ c.JellyfinPathPrefix = <<>>}
  /\ fs = FileSystem(config, [d \in WorldDirs(config) |-> "writable"], FALSE)
  /\ \E n \in 0..MaxBlocks :
       \E blocks \in [1..n -> BlockPool], sep \in BlockSeparators, end \in DocumentEnds :
         /\ req = [r \in Requests |->
                     [NewRequest EXCEPT !.pc = "Parse",
                                        !.content = Join(RawBlocks(blocks), sep) \o end]]
         /\ events = [r \in Requests |-> <<Event("Document", blocks, TRUE)>>]

\* translateAndSaveSubtitle: Parser.Parse(content) returns, its error nil
CallParse(r) ==
  /\ req[r].pc = "Parse"
  /\ Continue(r, [req[r] EXCEPT !.pc = "Format", !.entries = Parse(req[r].content)],
              <<Event("Parse", req[r].content, TRUE)>>)
  /\ UNCHANGED <<config, fs>>

\* translateAndSaveSubtitle: Parser.Format(entries) returns
CallFormat(r) ==
  /\ req[r].pc = "Format"
  /\ Continue(r, [req[r] EXCEPT !.pc = "Formatted", !.content = Format(req[r].entries)],
              <<Event("Format", req[r].entries, TRUE)>>)
  /\ UNCHANGED <<config, fs>>

NextCodec ==
  \/ \E r \in DOMAIN req : CallParse(r)
  \/ \E r \in DOMAIN req : CallFormat(r)

SpecCodec == InitCodec /\ [][NextCodec]_vars

(***************************************************************************)
(* The codec applied to its own output: Parse, Format, Parse again, over   *)
(* documents whose text may hold a carriage return that is not part of a   *)
(* CRLF line end.                                                          *)
(***************************************************************************)

\* blocks whose text lines end in CR CR LF: a block of two such text lines;
\* a block whose text holds an empty line ended in CR CR LF and, after it,
\* the three lines of a block
StrayBlocks ==
  { [raw |-> <<"2", "\n", "T1", " ", "-->", " ", "T2", "\n", "a", "\r", "\r", "\n", "b">>,
     wellFormed |-> TRUE, Index |-> 2, StartTime |-> "T1", EndTime |-> "T2",
     text |-> <<"a", "\r", "\n", "b">>],
    [raw |-> <<"6", "\n", "T2", " ", "-->", " ", "T3", "\n", "a", "\r", "\r", "\n",
               "\r", "\r", "\n", "8", "\r", "\r", "\n",
               "T3", " ", "-->", " ", "T4", "\r", "\r", "\n", "b">>,
     wellFormed |-> TRUE, Index |-> 6, StartTime |-> "T2", EndTime |-> "T3",
     text |-> <<"a", "\r", "\n", "\r", "\n", "8", "\r", "\n",
                "T3", " ", "-->", " ", "T4", "\r", "\n", "b">>] }

\* the request holds a document of up to MaxBlocks blocks, of BlockPool or
\* of StrayBlocks; the blocks it was put together from are on record
InitReparse ==
  /\ config \in {c \in Configs : ~c.EnableDirectSave /\ c.JellyfinPathPrefix = <<>>}
  /\ fs = FileSystem(config, [d \in WorldDirs(config) |-> "writable"], FALSE)
  /\ \E n \in 0..MaxBlocks :
       \E blocks \in [1..n -> BlockPool \cup StrayBlocks],
          sep \in BlockSeparators, end \in DocumentEnds :
         /\ req = [r \in Requests |->
                     [NewRequest EXCEPT !.pc = "Parse",
                                        !.content = Join(RawBlocks(blocks), sep) \o end]]
         /\ events = [r \in Requests |-> <<Event("Document", blocks, TRUE)>>]

\* Parser.Parse returns for the content Parser.Format has written
CallParseAgain(r) ==
  /\ req[r].pc = "Formatted"
  /\ Continue(r, [req[r] EXCEPT !.pc = "Reparsed", !.entries = Parse(req[r].content)],
              <<Event("Parse", req[r].content, TRUE)>>)
  /\ UNCHANGED <<config, fs>>

NextReparse ==
  \/ \E r \in DOMAIN req : CallParse(r)
  \/ \E r \in DOMAIN req : CallFormat(r)
  \/ \E r \in DOMAIN req : CallParseAgain(r)

SpecReparse == InitReparse /\ [][NextReparse]_vars

(***************************************************************************)
(* Client.GetSearchQuery over the items a catalog can hold.                *)
(***************************************************************************)

\* jellyfin.MediaItem, the fields GetSearchQuery reads: episodes, movies and
\* series; a field the catalog leaves out decodes to "" or to 0
QueryItems ==
  { [NoItem EXCEPT !.Type = type, !.Name = name, !.SeriesName = seriesName,
                   !.ParentIndexNumber = season, !.IndexNumber = episode,
                   !.ProductionYear = year] :
      type \in {"Episode", "Movie", "Series"},
      name \in { <<"P">>, <<"B", "a", "r">> },
      seriesName \in { <<>>, <<"F", "o", "o">> },
      season \in {0, 2, 12},
      episode \in {5, 10},
      year \in {0, 1999} }

\* ProcessHandler has the item GetItem returned
InitQuery ==
  /\ config \in {c \in Configs : ~c.EnableDirectSave /\ c.JellyfinPathPrefix = <<>>}
  /\ fs = FileSystem(config, [d \in WorldDirs(config) |-> "writable"], FALSE)
  /\ \E item \in QueryItems :
       req = [r \in Requests |-> [NewRequest EXCEPT !.pc = "GetSearchQuery",
                                                    !.item = item]]
  /\ events = [r \in Requests |-> <<>>]

\* ProcessHandler: searchQuery, from the item GetItem returned
CallGetSearchQuery(r) ==
  /\ req[r].pc = "GetSearchQuery"
  /\ Continue(r, [req[r] EXCEPT !.pc = "SearchTarget",
                                !.searchQuery = GetSearchQuery(req[r].item)],
              <<Event("GetSearchQuery", req[r].item, TRUE)>>)
  /\ UNCHANGED <<config, fs>>

NextQuery == \E r \in DOMAIN req : CallGetSearchQuery(r)

SpecQuery == InitQuery /\ [][NextQuery]_vars

(***************************************************************************)
(* Config.MapJellyfinPathToContainer over the prefixes a deployment can    *)
(* set and the paths a catalog can report.                                 *)
(***************************************************************************)

\* JELLYFIN_PATH_PREFIX: not set, /d, /x
JellyfinPathPrefixes == { <<>>, <<"/", "d">>, <<"/", "x">> }

\* CONTAINER_PATH_PREFIX: not set, /m, /d/m (it holds the other prefix)
ContainerPathPrefixes == { <<>>, <<"/", "m">>, <<"/", "d", "/", "m">> }

\* the paths the catalog reports: under /d, under /d/d, /d itself, /dd (its
\* first characters are those of /d), under /x/d, under /m, a relative path,
\* the empty path
JellyfinPaths ==
  { <<"/", "d", "/", "F", ".", "mkv">>,
    <<"/", "d", "/", "d", "/", "F">>,
    <<"/", "d">>,
    <<"/", "d", "d", "/", "F">>,
    <<"/", "x", "/", "d", "/", "F">>,
    <<"/", "m", "/", "F">>,
    <<"F", "/", "d">>,
    <<>> }

\* generateSubtitlePath is about to map videoPath
InitMapping ==
  /\ \E p \in JellyfinPathPrefixes, q \in ContainerPathPrefixes, d \in BOOLEAN :
       config = [EnableDirectSave |-> d, JellyfinPathPrefix |-> p,
                 ContainerPathPrefix |-> q, SubtitleDirectory |-> <<"/", "a">>]
  /\ fs = FileSystem(config, [d \in {config.SubtitleDirectory} |-> "writable"], FALSE)
  /\ \E path \in JellyfinPaths :
       req = [r \in Requests |-> [NewRequest EXCEPT !.pc = "MapJellyfinPathToContainer",
                                                    !.videoPath = path]]
  /\ events = [r \in Requests |-> <<>>]

\* generateSubtitlePath: containerPath
CallMapJellyfinPathToContainer(r) ==
  /\ req[r].pc = "MapJellyfinPathToContainer"
  /\ Continue(r, [req[r] EXCEPT !.pc = "Stat"],
              <<Event("MapJellyfinPathToContainer",
                      MapJellyfinPathToContainer(config, req[r].videoPath), TRUE)>>)
  /\ UNCHANGED <<config, fs>>

NextMapping == \E r \in DOMAIN req : CallMapJellyfinPathToContainer(r)

SpecMapping == InitMapping /\ [][NextMapping]_vars

(***************************************************************************)
(* ProcessHandler's videoPath over the path data a catalog can report.     *)
(***************************************************************************)

\* the most media sources of an item
MaxSources == 2

\* the paths of media sources and the nominal paths: two video files, a
\* stream link, and the empty path of a field the catalog left out
SourcePaths ==
  { <<"/", "d", "/", "F", "/", "S02E05", ".", "mkv">>,
    <<"/", "d", "/", "G", "/", "v2", ".", "mp4">>,
    <<"/", "d", "/", "F", "/", "x", ".", "strm">>,
    <<>> }

\* jellyfin.MediaItem, the fields videoPath is taken from: the item "it"
\* as the catalog can report it, with up to MaxSources media sources
PathItems ==
  { [NoItem EXCEPT !.ID = "it", !.Type = type, !.Name = <<"P">>,
                   !.Path = path,
                   !.MediaSources = [k \in DOMAIN sources |-> [Path |-> sources[k]]]] :
      type \in {"Episode", "Movie"},
      path \in SourcePaths,
      sources \in UNION { [1..n -> SourcePaths] : n \in 0..MaxSources } }

\* ProcessHandler is about to ask the catalog for the item "it"
InitVideoPath ==
  /\ config \in {c \in Configs : ~c.EnableDirectSave /\ c.JellyfinPathPrefix = <<>>}
  /\ fs = FileSystem(config, [d \in WorldDirs(config) |-> "writable"], FALSE)
  /\ req = [r \in Requests |-> [NewRequest EXCEPT !.pc = "GetItem", !.itemID = "it"]]
  /\ events = [r \in Requests |-> <<>>]

NextVideoPath == \E r \in DOMAIN req : GetItemFrom(r, PathItems)

SpecVideoPath == InitVideoPath /\ [][NextVideoPath]_vars

(***************************************************************************)
(* internal/jellyfin/client.go: the Discovery Filter, and IndexHandler,    *)
(* which lists what it returns.                                            *)
(***************************************************************************)

\* the most items of a catalog listing
MaxListed == 2

\* MediaItem.MediaStreams, one stream
Stream(type, language, isExternal) ==
  [Type |-> type, Language |-> language, IsExternal |-> isExternal]

\* jellyfin.MediaItem, the fields the filter reads: an item without stream
\* or path data; one with an embedded zh-TW subtitle; one whose only Chinese
\* subtitle is external; one with an audio track and an embedded chi
\* subtitle; one whose only chi stream is audio; one with a subtitle tagged
\* zh-tw, in lower case; one with an English subtitle and a media source
ListedItems ==
  { [ID |-> "n0", MediaStreams |-> <<>>, MediaSources |-> <<>>],
    [ID |-> "n1", MediaStreams |-> <<Stream("Subtitle", "zh-TW", FALSE)>>,
     MediaSources |-> <<>>],
    [ID |-> "n2", MediaStreams |-> <<Stream("Subtitle", "zh-Hant", TRUE)>>,
     MediaSources |-> << [Path |-> <<"/", "d", "/", "F", "/", "S02E05", ".", "mkv">>] >>],
    [ID |-> "n3",
     MediaStreams |-> <<Stream("Audio", "en", FALSE), Stream("Subtitle", "chi", FALSE)>>,
     MediaSources |-> <<>>],
    [ID |-> "n4", MediaStreams |-> <<Stream("Audio", "chi", FALSE)>>,
     MediaSources |-> <<>>],
    [ID |-> "n5", MediaStreams |-> <<Stream("Subtitle", "zh-tw", FALSE)>>,
     MediaSources |-> <<>>],
    [ID |-> "n6", MediaStreams |-> <<Stream("Subtitle", "en", FALSE)>>,
     MediaSources |-> << [Path |-> <<"/", "d", "/", "F", "/", "Bar", ".", "mkv">>] >>] }

\* what the catalog answers to the listing: a transport error, a status
\* other than 200, a body that is not JSON, or up to MaxListed items
ListingResponses ==
  { [err |-> e, Items |-> <<>>] : e \in {"fetch", "status", "parse"} } \cup
  { [err |-> "", Items |-> items] :
      items \in UNION { [1..n -> ListedItems] : n \in 0..MaxListed } }

\* Client.fileExists
fileExists(path) == FALSE

\* hasChineseSubtitle: chineseSubtitles
SidecarPaths(videoPath) ==
  { PathJoin(Dir(videoPath),
             TrimSuffix(Base(videoPath), Ext(videoPath)) \o <<".", tag, ".", "srt">>) :
      tag \in {"zh-Hant", "zh-TW", "chi"} }

\* a faulty hasChineseSubtitle: the tag chi is not among the tags it knows
hasChineseSubtitleWithoutChi(item) ==
  \/ \E k \in 1..Len(item.MediaStreams) :
       /\ item.MediaStreams[k].Type = "Subtitle"
       /\ item.MediaStreams[k].Language \in {"zh-TW", "zh-Hant"}
  \/ /\ Len(item.MediaSources) > 0
     /\ \E subPath \in SidecarPaths(item.MediaSources[1].Path) : fileExists(subPath)

\* Client.hasChineseSubtitle
hasChineseSubtitle(item) ==
  \/ \E k \in 1..Len(item.MediaStreams) :
       /\ item.MediaStreams[k].Type = "Subtitle"
       /\ item.MediaStreams[k].Language \in {"zh-TW", "zh-Hant", "chi"}
  \/ /\ Len(item.MediaSources) > 0
     /\ \E subPath \in SidecarPaths(item.MediaSources[1].Path) : fileExists(subPath)

\* GetMediaWithoutChineseSubtitles: filtered
RECURSIVE Filtered(_)
Filtered(items) ==
  IF items = <<>> THEN <<>>
  ELSE (IF ~hasChineseSubtitle(Head(items)) THEN <<Head(items)>> ELSE <<>>)
       \o Filtered(Tail(items))

\* Client.GetMediaWithoutChineseSubtitles, given the catalog's answer
GetMediaWithoutChineseSubtitles(response) ==
  IF response.err # "" THEN [err |-> TRUE, items |-> <<>>]
  ELSE [err |-> FALSE, items |-> Filtered(response.Items)]

\* a request for the index page has arrived; the catalog's answer to the
\* listing it will ask for is on record
InitDiscovery ==
  /\ config \in {c \in Configs : ~c.EnableDirectSave /\ c.JellyfinPathPrefix = <<>>}
  /\ fs = FileSystem(config, [d \in WorldDirs(config) |-> "writable"], FALSE)
  /\ req = [r \in Requests |-> [NewRequest EXCEPT !.pc = "IndexHandler"]]
  /\ \E response \in ListingResponses :
       events = [r \in Requests |-> <<Event("Listing", response, response.err = "")>>]

\* IndexHandler: GetMediaWithoutChineseSubtitles returns; the page, or 500
IndexHandler(r) ==
  /\ req[r].pc = "IndexHandler"
  /\ LET got == GetMediaWithoutChineseSubtitles(events[r][1].arg)
         ev  == Event("GetMediaWithoutChineseSubtitles", got.items, ~got.err)
     IN IF got.err
        THEN Respond(r, <<ev>>, 500, "Failed to fetch media", "catalog")
        ELSE Respond(r, <<ev>>, 200, "index", "")
  /\ UNCHANGED <<config, fs>>

NextDiscovery == \E r \in DOMAIN req : IndexHandler(r)

SpecDiscovery == InitDiscovery /\ [][NextDiscovery]_vars

(***************************************************************************)
(* Two requests at once, each on its own goroutine.  os.WriteFile is two   *)
(* steps here, as in the os package: OpenFile with O_TRUNC, then Write     *)
(* from offset 0 of the open file.                                         *)
(***************************************************************************)

\* an episode of another series, its file named like ep42's, in the
\* directory of its own series
OtherItem ==
  [ID |-> "ep9", Name |-> <<"Q">>, Type |-> "Episode",
   SeriesName |-> <<"Q", "u", "x">>, ParentIndexNumber |-> 2, IndexNumber |-> 5,
   ProductionYear |-> 0,
   Path |-> <<"/", "d", "/", "G", "/", "S02E05", ".", "mkv">>,
   MediaSources |-> <<>>]

Library == Items \cup {OtherItem}

\* the directories the two requests touch under configuration c
LibraryDirs(c) ==
  {MediaDir(c, VideoPath(it)) : it \in Library} \cup {c.SubtitleDirectory}

\* both requests are past the checks of ProcessHandler: the first is for
\* ep42, the second for ep42 again or for ep9; every directory takes new
\* files, or none exists yet and MkdirAll can create it
InitConcurrent ==
  /\ config \in {c \in Configs : c.JellyfinPathPrefix # <<>>}
  /\ \E st \in {"writable", "absent"} :
       fs = FileSystem(config, [d \in LibraryDirs(config) |-> st], FALSE)
  /\ \E second \in {"ep42", "ep9"} :
       req = [r \in {1, 2} |->
                [NewRequest EXCEPT !.pc = "GetItem",
                                   !.itemID = IF r = 1 THEN "ep42" ELSE second]]
  /\ events = [r \in {1, 2} |-> <<>>]

\* the bytes of the file at path in filesystem f, none when there is no file
DataAt(f, path) ==
  IF FileExists(f, path) THEN (CHOOSE x \in f.files : x.path = path).data ELSE <<>>

\* the bytes of a file holding old after data was written from offset 0
WriteAt0(old, data) == data \o SubSeq(old, Len(data) + 1, Len(old))

\* os.WriteFile: OpenFile(name, O_WRONLY|O_CREATE|O_TRUNC) returns; on an
\* error ProcessHandler answers 500
OpenFile(r) ==
  /\ req[r].pc = "WriteFile"
  /\ LET path == req[r].subtitlePath
     IN IF OpenForWriteOK(fs, path)
        THEN /\ fs' = PutFile(fs, path, <<>>)
             /\ Continue(r, [req[r] EXCEPT !.pc = "Write"],
                         <<Event("OpenFile", path, TRUE)>>)
        ELSE /\ fs' = fs
             /\ Respond(r, <<Event("WriteFile", path, FALSE)>>, 500,
                        IF req[r].translating THEN "Failed to translate subtitle"
                                              ELSE "Failed to save Chinese subtitle",
                        "failed to write subtitle file")
  /\ UNCHANGED config

\* os.WriteFile: f.Write(data) and f.Close return
Write(r) ==
  /\ req[r].pc = "Write"
  /\ LET path == req[r].subtitlePath
     IN /\ fs' = PutFile(fs, path, WriteAt0(DataAt(fs, path), req[r].content))
        /\ Continue(r, [req[r] EXCEPT !.pc = "RefreshMetadata"],
                    <<Event("WriteFile", path, TRUE)>>)
  /\ UNCHANGED config

\* what a search returns in these runs: an error, no candidate, or one
\* candidate whose file parses to at most one entry
FewCandidates ==
  {<<>>} \cup {<<Subtitle(f)>> : f \in {g \in FileIDs : Len(Parse(ProviderFiles[g])) <= 1}}

\* the search request r has just made returned one of FewCandidates
SearchedFew(r) ==
  \A k \in 1..Len(events'[r]) :
    events'[r][k].op = "Search" => events'[r][k].arg[2] \in FewCandidates

NextConcurrent ==
  \/ \E r \in DOMAIN req : GetItemFrom(r, Library)
  \/ \E r \in DOMAIN req : SearchTarget(r) /\ SearchedFew(r)
  \/ \E r \in DOMAIN req : SearchFallback(r) /\ SearchedFew(r)
  \/ \E r \in DOMAIN req : downloadAndSaveSubtitle(r)
  \/ \E r \in DOMAIN req : translateAndSaveSubtitle(r)
  \/ \E r \in DOMAIN req : TranslateEntries(r)
  \/ \E r \in DOMAIN req : translateWithRetry(r)
  \/ \E r \in DOMAIN req : Sleep(r)
  \/ \E r \in DOMAIN req : generateSubtitlePath(r)
  \/ \E r \in DOMAIN req : Stat(r)
  \/ \E r \in DOMAIN req : MkdirMedia(r)
  \/ \E r \in DOMAIN req : Create(r)
  \/ \E r \in DOMAIN req : Remove(r)
  \/ \E r \in DOMAIN req : MkdirDownloads(r)
  \/ \E r \in DOMAIN req : OpenFile(r)
  \/ \E r \in DOMAIN req : Write(r)
  \/ \E r \in DOMAIN req : RefreshMetadata(r)

SpecConcurrent == InitConcurrent /\ [][NextConcurrent]_vars

(***************************************************************************)
(* Properties.  They read the record of calls each request has made.       *)
(***************************************************************************)

\* the positions in request r's record of the calls of operation op
At(r, op) == {k \in 1..Len(events[r]) : events[r][k].op = op}

\* the positions of request r's searches for language lang
SearchAt(r, lang) == {k \in At(r, "Search") : events[r][k].arg[1] = lang}

\* request r has answered
Finished(r) == req[r].pc = "done"

\* request r searched lang and got no candidate (an error, or an empty list)
SearchMissed(r, lang) ==
  \E k \in SearchAt(r, lang) : ~events[r][k].ok \/ events[r][k].arg[2] = <<>>

\* request r searched lang and got at least one candidate
SearchHit(r, lang) ==
  \E k \in SearchAt(r, lang) : events[r][k].ok /\ events[r][k].arg[2] # <<>>

\* the first candidate, in provider order, of request r's search for lang
FirstCandidate(r, lang) ==
  events[r][CHOOSE k \in SearchAt(r, lang) : TRUE].arg[2][1]

\* request r's download returned the file
Downloaded(r) == \E k \in At(r, "Download") : events[r][k].ok

\* request r's os.WriteFile returned a nil error
Written(r) == \E k \in At(r, "WriteFile") : events[r][k].ok

\* the bytes of the file at path
FileData(path) == (CHOOSE x \in fs.files : x.path = path).data

\* C1: whenever the target-language search returns an empty list and the
\* fallback-language search returns at least one candidate, the request never
\* answers 404 (not found); it goes on to download the first fallback
\* candidate and no other file; and once that download has returned the file,
\* TranslateEntries is called on the entries Parse gives for that file (a
\* failed download leaves nothing to parse, and ends the request with 500).
C1_FallbackHitIsTranslated ==
  \A r \in DOMAIN req :
    ( /\ \E k \in SearchAt(r, "zh-TW") : events[r][k].ok /\ events[r][k].arg[2] = <<>>
      /\ SearchHit(r, "en") )
    => /\ req[r].resp.code # 404
       /\ req[r].pc = "DownloadFallback" \/ At(r, "Download") # {}
       /\ \A k \in At(r, "Download") :
            events[r][k].arg = FirstCandidate(r, "en").FileID
       /\ Downloaded(r) =>
            \/ req[r].pc = "TranslateEntries"
            \/ \E k \in At(r, "TranslateEntries") :
                 events[r][k].arg = Parse(ProviderFiles[FirstCandidate(r, "en").FileID])

\* C1's case: an empty target-language list, two fallback candidates, and
\* the request has answered 200 after a translator call that succeeded
C1_Witness ==
  \E r \in DOMAIN req :
    /\ \E k \in SearchAt(r, "zh-TW") : events[r][k].ok /\ events[r][k].arg[2] = <<>>
    /\ \E k \in SearchAt(r, "en") : events[r][k].ok /\ Len(events[r][k].arg[2]) = 2
    /\ \E k \in At(r, "Translate") : events[r][k].ok
    /\ Finished(r) /\ req[r].resp.code = 200

\* every attempt of request r to translate its entry i has failed
Exhausted(r, i) ==
  \E k \in At(r, "Translate") :
    events[r][k].arg = <<i, MaxRetries>> /\ ~events[r][k].ok

\* the entries of the file request r translates, as Parse gives them
SourceEntries(r) == Parse(ProviderFiles[FirstCandidate(r, "en").FileID])

\* the document request r is to save: the source entries in their order,
\* each with its index and timestamps, the text translated unless every
\* attempt for it has failed
ExpectedEntries(r) ==
  [k \in 1..Len(SourceEntries(r)) |->
     [Index     |-> SourceEntries(r)[k].Index,
      StartTime |-> SourceEntries(r)[k].StartTime,
      EndTime   |-> SourceEntries(r)[k].EndTime,
      Text      |-> IF Exhausted(r, k)
                    THEN SourceEntries(r)[k].Text
                    ELSE BackendText(cleanTextForTranslation(SourceEntries(r)[k].Text))]]

\* C2: if the translator fails on every attempt for some entry of the
\* fallback subtitle, the request is not failed for it: it answers 200
\* unless the final os.WriteFile fails (the one failure left on its way), and
\* with the answer 200 the saved file is the serialisation, in source order,
\* of the source entries with their indices and timestamps, the exhausted
\* entries with their original text and the others with the translated text.
C2_ExhaustedEntryKeepsOriginal ==
  \A r \in DOMAIN req :
    (Finished(r) /\ \E i \in 1..Len(req[r].entries) : Exhausted(r, i))
    => /\ \/ req[r].resp.code = 200
          \/ /\ req[r].resp.code = 500
             /\ req[r].resp.detail = "failed to write subtitle file"
             /\ ~Written(r)
       /\ req[r].resp.code = 200 =>
            /\ FileExists(fs, req[r].subtitlePath)
            /\ FileData(req[r].subtitlePath) = Format(ExpectedEntries(r))

\* C2's case: answered 200 with two entries saved, one exhausted (original
\* text) and one translated
C2_Witness ==
  \E r \in DOMAIN req :
    /\ Finished(r) /\ req[r].resp.code = 200
    /\ Len(req[r].entries) = 2
    /\ \E i, j \in 1..2 :
         /\ Exhausted(r, i) /\ ~Exhausted(r, j)
         /\ Parse(FileData(req[r].subtitlePath))[i].Text = req[r].entries[i].Text
         /\ Parse(FileData(req[r].subtitlePath))[j].Text # req[r].entries[j].Text

\* the name of the subtitle file of the item with this id: the media file's
\* name without its extension, the tag zh-Hant, the extension srt
ExpectedFileName(itemID) ==
  (IF itemID = "ep42" THEN <<"S02E05">> ELSE <<"Bar">>) \o <<".", "zh-Hant", ".", "srt">>

\* the directory of the media files as the server sees it: /d/F, mapped to
\* /m/F when the two prefixes are configured
ExpectedMediaDir ==
  IF config.JellyfinPathPrefix = <<>>
  THEN <<"/", "d", "/", "F">>
  ELSE <<"/", "m", "/", "F">>

\* files can be created in directory d, as it is or once it is created
Usable(d) == d \in fs.writable \/ d \in fs.creatable

\* C3: with direct save enabled, once the save target is resolved: if the
\* mapped media directory is writable (or absent and creatable) the class is
\* media and the path <mappedDir>/<basename>.zh-Hant.srt; if not, the class
\* is downloads (staging) and the path <SubtitleDirectory>/<basename>.zh-Hant.srt.
\* The subtitle is written to that path and no other; the answer is 200
\* unless that write fails, it names the class, and the file then holds the
\* subtitle.
C3_DirectSaveTarget ==
  \A r \in DOMAIN req :
    (config.EnableDirectSave /\ req[r].saveLocation # "")
    => /\ IF Usable(ExpectedMediaDir)
          THEN /\ req[r].saveLocation = "media"
               /\ req[r].subtitlePath =
                    ExpectedMediaDir \o <<"/">> \o ExpectedFileName(req[r].itemID)
          ELSE /\ req[r].saveLocation = "downloads"
               /\ req[r].subtitlePath =
                    config.SubtitleDirectory \o <<"/">> \o ExpectedFileName(req[r].itemID)
       /\ \A k \in At(r, "WriteFile") : events[r][k].arg = req[r].subtitlePath
       /\ Finished(r) =>
            /\ req[r].resp.code = 200 <=> Written(r)
            /\ req[r].resp.code = 200 =>
                 /\ req[r].resp.msg =
                      (IF req[r].saveLocation = "media"
                       THEN "saved to media directory"
                       ELSE "saved to downloads directory")
                 /\ FileData(req[r].subtitlePath) = req[r].content
            /\ req[r].resp.code # 200 =>
                 req[r].resp.detail = "failed to write subtitle file"

\* C3's case: direct save enabled, the media directory read-only, and the
\* request has answered 200 with the file under the downloads directory
C3_Witness ==
  \E r \in DOMAIN req :
    /\ config.EnableDirectSave
    /\ ExpectedMediaDir \in fs.dirs /\ ~Usable(ExpectedMediaDir)
    /\ \E k \in At(r, "Create") : ~events[r][k].ok
    /\ Finished(r) /\ req[r].resp.code = 200
    /\ req[r].saveLocation = "downloads"
    /\ FileExists(fs, config.SubtitleDirectory \o <<"/">> \o ExpectedFileName(req[r].itemID))

\* the marker file canWriteToDirectory creates in directory d
MarkerIn(d) == d \o <<"/", ".", "subtitle-hunter-write-test">>

\* C4: in every reachable state, a request's save target is of class media
\* only if its probe of the target's directory has returned success before
\* any write: the marker file was created in that directory and removed.
\* With direct save disabled the class is never media, and the request makes
\* no Stat, no MkdirAll, no Create and no Remove on or in the media directory.
C4_MediaOnlyAfterProbe ==
  \A r \in DOMAIN req :
    /\ req[r].saveLocation = "media" =>
         \E k, j \in 1..Len(events[r]) :
           /\ k < j
           /\ events[r][k].op = "Create" /\ events[r][k].ok
           /\ events[r][k].arg = MarkerIn(Dir(req[r].subtitlePath))
           /\ events[r][j].op = "Remove"
           /\ \A w \in At(r, "WriteFile") : j < w
    /\ ~config.EnableDirectSave =>
         /\ req[r].saveLocation \in {"", "downloads"}
         /\ At(r, "Stat") = {} /\ At(r, "Create") = {} /\ At(r, "Remove") = {}
         /\ \A k \in At(r, "MkdirAll") : events[r][k].arg # ExpectedMediaDir

\* C4's case: a request has answered 200 with a target of class media, in a
\* media directory its probe had to create
C4_Witness ==
  \E r \in DOMAIN req :
    /\ req[r].saveLocation = "media"
    /\ \E k \in At(r, "MkdirAll") : events[r][k].arg = ExpectedMediaDir /\ events[r][k].ok
    /\ Finished(r) /\ req[r].resp.code = 200

\* the operations that download, translate, touch the filesystem or refresh
EffectOps ==
  {"Download", "TranslateEntries", "Translate", "Sleep", "Stat", "MkdirAll",
   "Create", "Remove", "WriteFile", "RefreshMetadata"}

\* C5: when neither the target-language search nor the fallback-language
\* search returns a candidate (an error or an empty list), the request has
\* answered 404, not found, and has made no download, no translation, no
\* filesystem call and no metadata refresh; the only files are those that
\* were there before.
C5_NoCandidateIsNotFound ==
  \A r \in DOMAIN req :
    (SearchMissed(r, "zh-TW") /\ SearchMissed(r, "en"))
    => /\ Finished(r)
       /\ req[r].resp.code = 404 /\ req[r].resp.msg = "No subtitles found"
       /\ \A k \in 1..Len(events[r]) : events[r][k].op \notin EffectOps
       /\ \A x \in fs.files : x.path \in fs.readonly

\* C5's case: the target-language search failed, the fallback-language
\* search returned an empty list
C5_Witness ==
  \E r \in DOMAIN req :
    /\ \E k \in SearchAt(r, "zh-TW") : ~events[r][k].ok
    /\ \E k \in SearchAt(r, "en") : events[r][k].ok /\ events[r][k].arg[2] = <<>>
    /\ req[r].resp.code = 404

\* C6: when the target-language search returns at least one candidate, the
\* request downloads the first candidate in provider order, once, and no
\* other; what it writes goes to a file named *.zh-Hant.srt and is the
\* downloaded file byte for byte; it never searches the fallback language and
\* never calls the translator.  (Once the file is downloaded the write is
\* attempted, and the answer is 200 exactly when it succeeds.)
C6_DirectHitSavedUnchanged ==
  \A r \in DOMAIN req :
    SearchHit(r, "zh-TW")
    => /\ SearchAt(r, "en") = {}
       /\ At(r, "TranslateEntries") = {} /\ At(r, "Translate") = {}
       /\ Cardinality(At(r, "Download")) <= 1
       /\ req[r].pc = "DownloadDirect" \/ At(r, "Download") # {}
       /\ \A k \in At(r, "Download") :
            events[r][k].arg = FirstCandidate(r, "zh-TW").FileID
       /\ \A k \in At(r, "WriteFile") :
            /\ HasSuffix(events[r][k].arg, <<".", "zh-Hant", ".", "srt">>)
            /\ events[r][k].ok =>
                 FileData(events[r][k].arg) = ProviderFiles[FirstCandidate(r, "zh-TW").FileID]
       /\ (Finished(r) /\ Downloaded(r)) =>
            /\ At(r, "WriteFile") # {}
            /\ req[r].resp.code = 200 <=> Written(r)

\* C6's case: two target-language candidates, the first one saved, 200
C6_Witness ==
  \E r \in DOMAIN req :
    /\ \E k \in SearchAt(r, "zh-TW") : events[r][k].ok /\ Len(events[r][k].arg[2]) = 2
    /\ Written(r)
    /\ Finished(r) /\ req[r].resp.code = 200

\* C7: a request attempts the metadata refresh at most once, for its item,
\* and only after its os.WriteFile has succeeded; once the file is written
\* the refresh is attempted (both on the direct and on the translated path);
\* and whatever the refresh returns the answer is the same 200 with the
\* message of the save location.
C7_RefreshOnceAfterWrite ==
  \A r \in DOMAIN req :
    /\ Cardinality(At(r, "RefreshMetadata")) <= 1
    /\ \A k \in At(r, "RefreshMetadata") :
         /\ events[r][k].arg = req[r].itemID
         /\ \E j \in At(r, "WriteFile") : j < k /\ events[r][j].ok
    /\ Written(r) => (req[r].pc = "RefreshMetadata" \/ At(r, "RefreshMetadata") # {})
    /\ (Finished(r) /\ At(r, "RefreshMetadata") # {}) =>
         req[r].resp =
           [code   |-> 200,
            msg    |-> IF req[r].saveLocation = "media"
                       THEN "saved to media directory"
                       ELSE "saved to downloads directory",
            detail |-> ""]

\* C7's case: on the translated path the refresh failed and the answer is 200
C7_Witness ==
  \E r \in DOMAIN req :
    /\ req[r].translating
    /\ \E k \in At(r, "RefreshMetadata") : ~events[r][k].ok
    /\ Finished(r) /\ req[r].resp.code = 200

\* C8: for each entry the translator is attempted at most 3 times, the
\* attempts numbered 1, 2, ... without repetition, and none after a
\* successful one; nothing is waited before attempt 1, and right before
\* attempt n >= 2 (after the failed attempt n-1) exactly n-1 seconds are
\* waited: 1 before attempt 2, 2 before attempt 3.  Nothing else is waited.
C8_BoundedRetryLinearBackoff ==
  \A r \in DOMAIN req :
    /\ \A k \in At(r, "Translate") :
         LET i == events[r][k].arg[1]
             n == events[r][k].arg[2]
         IN /\ n \in 1..3
            /\ n = 1 => (k = 1 \/ events[r][k - 1].op # "Sleep")
            /\ n >= 2 =>
                 /\ k > 2
                 /\ events[r][k - 1].op = "Sleep" /\ events[r][k - 1].arg = n - 1
                 /\ events[r][k - 2].op = "Translate"
                 /\ events[r][k - 2].arg = <<i, n - 1>> /\ ~events[r][k - 2].ok
            /\ \A j \in At(r, "Translate") :
                 /\ (j # k) => events[r][j].arg # events[r][k].arg
                 /\ (events[r][k].ok /\ j > k) => events[r][j].arg[1] # i
    /\ \A k \in At(r, "Sleep") :
         /\ k > 1
         /\ events[r][k - 1].op = "Translate" /\ ~events[r][k - 1].ok
         /\ (k < Len(events[r])) => events[r][k + 1].op = "Translate"

\* C8's case: an entry translated at its third attempt, after waits of 1 and
\* 2 seconds
C8_Witness ==
  \E r \in DOMAIN req :
    \E k \in At(r, "Translate") :
      /\ events[r][k].arg[2] = 3 /\ events[r][k].ok
      /\ events[r][k - 1].op = "Sleep" /\ events[r][k - 1].arg = 2
      /\ events[r][k - 3].op = "Sleep" /\ events[r][k - 3].arg = 1
      /\ k - 4 \in At(r, "Translate")

\* C9: for every sequence of entries and every pattern of translator
\* successes and failures, TranslateEntries has no error exit, and its output
\* grows in step with the input: the k-th output entry has the index, the
\* start and the end timestamp of the k-th input entry, and its text is the
\* translator's result or the original text; when TranslateEntries returns,
\* the output is as long as the input.
C9_TranslateEntriesKeepsShape ==
  \A r \in DOMAIN req :
    /\ req[r].pc # "done"
    /\ req[r].pc \in {"Translate", "Sleep"} => Len(req[r].translated) = req[r].i - 1
    /\ req[r].pc = "generateSubtitlePath" => Len(req[r].translated) = Len(req[r].entries)
    /\ Len(req[r].translated) <= Len(req[r].entries)
    /\ \A k \in 1..Len(req[r].translated) :
         /\ req[r].translated[k].Index = req[r].entries[k].Index
         /\ req[r].translated[k].StartTime = req[r].entries[k].StartTime
         /\ req[r].translated[k].EndTime = req[r].entries[k].EndTime
         /\ \/ /\ \E e \in At(r, "Translate") :
                    events[r][e].arg[1] = k /\ events[r][e].ok
               /\ req[r].translated[k].Text =
                    Translate(req[r].entries[k].Text, "json").text
            \/ /\ Exhausted(r, k)
               /\ req[r].translated[k].Text = req[r].entries[k].Text

\* C9's case: TranslateEntries has returned two entries, the first (index 7,
\* after a gap) with its original text, the second translated
C9_Witness ==
  \E r \in DOMAIN req :
    /\ req[r].pc = "generateSubtitlePath"
    /\ Len(req[r].translated) = 2
    /\ req[r].entries[1].Index = 7 /\ Exhausted(r, 1)
    /\ ~Exhausted(r, 2) /\ req[r].translated[2].Text # req[r].entries[2].Text

\* the last call request r made before it answered was op
LastCall(r, op) ==
  /\ Len(events[r]) >= 2
  /\ events[r][Len(events[r]) - 1].op = op

\* the last call request r made before it answered was op, and it failed
LastCallFailed(r, op) ==
  /\ LastCall(r, op)
  /\ ~events[r][Len(events[r]) - 1].ok

\* C10 as stated: a request that has its item answers with an error only when
\* no candidate was found at all (404) or the final write failed.
C10_OnlySearchOrWriteAborts ==
  \A r \in DOMAIN req :
    (Finished(r) /\ req[r].item # NoItem /\ req[r].resp.code # 200)
    => \/ /\ req[r].resp.code = 404 /\ LastCall(r, "Search")
          /\ SearchMissed(r, "zh-TW") /\ SearchMissed(r, "en")
       \/ LastCallFailed(r, "WriteFile")

\* C10, amended: a request answers with an error only when it is rejected
\* (not POST, or no item id), when the catalog lookup fails, when no
\* candidate is found in either language (404), when the download of the
\* chosen candidate fails, or when the final write fails; in each case the
\* failing call is the last one it made.  No other failure makes the request
\* fail: whatever the probe, the creation of the downloads directory, the
\* translation attempts and the metadata refresh returned, the answer is 200
\* exactly when the final write succeeded.
C10_AbortingFailures ==
  \A r \in DOMAIN req :
    Finished(r)
    => /\ req[r].resp.code = 200 <=> Written(r)
       /\ req[r].resp.code # 200 =>
            \/ req[r].resp.code \in {400, 405} /\ Len(events[r]) = 1
            \/ req[r].resp.code = 500 /\ LastCallFailed(r, "GetItem")
            \/ /\ req[r].resp.code = 404 /\ LastCall(r, "Search")
               /\ SearchMissed(r, "zh-TW") /\ SearchMissed(r, "en")
            \/ req[r].resp.code = 500 /\ LastCallFailed(r, "Download")
            \/ req[r].resp.code = 500 /\ LastCallFailed(r, "WriteFile")

\* C10's case: the probe failed, a translation attempt failed, the refresh
\* failed, and the request has answered 200
C10_Witness ==
  \E r \in DOMAIN req :
    /\ \E k \in At(r, "Create") : ~events[r][k].ok
    /\ \E k \in At(r, "Translate") : ~events[r][k].ok
    /\ \E k \in At(r, "RefreshMetadata") : ~events[r][k].ok
    /\ Finished(r) /\ req[r].resp.code = 200

\* request r's write to path failed
WriteFailedAt(r, path) ==
  \E k \in At(r, "WriteFile") : events[r][k].arg = path /\ ~events[r][k].ok

\* C11 as stated: a request whose write to the media-adjacent target failed
\* answers with an error only if it also tried to write under the staging
\* directory and that write failed as well.
C11_WriteFailureOnlyAfterStaging ==
  \A r \in DOMAIN req :
    ( /\ Finished(r) /\ req[r].resp.code # 200
      /\ WriteFailedAt(r, MediaSubtitlePath(config, req[r].videoPath, req[r].language)) )
    => WriteFailedAt(r, FallbackPath(config, req[r].videoPath, req[r].language))

\* request r has answered 200
Succeeded(r) == Finished(r) /\ req[r].resp.code = 200

\* C12 as stated: when two requests for the same item, writing to the same
\* destination path, have both answered 200, the destination file holds the
\* complete content written by one of the two, whatever the order of their
\* filesystem steps was.
C12_SameItemLastWriterWins ==
  \A r1, r2 \in DOMAIN req :
    ( /\ r1 # r2
      /\ req[r1].itemID = req[r2].itemID
      /\ req[r1].subtitlePath = req[r2].subtitlePath
      /\ Succeeded(r1) /\ Succeeded(r2) )
    => DataAt(fs, req[r1].subtitlePath) \in {req[r1].content, req[r2].content}

\* C13 as stated, for the saved file: when two requests for different items
\* have both answered 200, the file at each request's save target holds that
\* request's content, as it would had the request run alone.
C13_DifferentItemsIndependent ==
  \A r1, r2 \in DOMAIN req :
    ( /\ r1 # r2
      /\ req[r1].itemID # req[r2].itemID
      /\ Succeeded(r1) /\ Succeeded(r2) )
    => DataAt(fs, req[r1].subtitlePath) = req[r1].content

\* the least of a non-empty set of numbers
Least(S) == CHOOSE x \in S : \A y \in S : x <= y

\* C14: within one request the translator is called for one entry at a time,
\* in source order: the first call is attempt 1 of entry 1; the call after a
\* failed attempt n < 3 of entry i is attempt n+1 of entry i, with nothing
\* but that attempt's wait between the two; the call after the last attempt
\* of entry i (a success, or the failed attempt 3) is attempt 1 of entry i+1,
\* with nothing between the two; and while a call or a wait is going on for
\* entry i, every call made so far was for an entry up to i and has returned.
C14_SequentialTranslation ==
  \A r \in DOMAIN req :
    LET T == At(r, "Translate")
    IN /\ T # {} => events[r][Least(T)].arg = <<1, 1>>
       /\ \A k \in T :
            LET i    == events[r][k].arg[1]
                n    == events[r][k].arg[2]
                more == n < 3 /\ ~events[r][k].ok
                next == {j \in T : j > k}
            IN /\ i \in 1..Len(req[r].entries)
               /\ next # {} =>
                    /\ events[r][Least(next)].arg = IF more THEN <<i, n + 1>> ELSE <<i + 1, 1>>
                    /\ Least(next) = IF more THEN k + 2 ELSE k + 1
                    /\ more => events[r][k + 1].op = "Sleep"
               /\ req[r].pc \in {"Translate", "Sleep"} =>
                    \/ i < req[r].i
                    \/ i = req[r].i /\ n < req[r].attempt /\ ~events[r][k].ok
       /\ req[r].pc \in {"Translate", "Sleep"} =>
            Len(req[r].translated) = req[r].i - 1

\* C14's case: a request has translated two entries, the first given up
\* after three attempts and two waits, the second translated at its second
\* attempt
C14_Witness ==
  \E r \in DOMAIN req :
    /\ Finished(r) /\ Len(req[r].entries) = 2
    /\ Exhausted(r, 1)
    /\ \E k \in At(r, "Translate") : events[r][k].arg = <<2, 2>> /\ events[r][k].ok

\* request r has answered exactly once, with the last step it made
AnsweredOnce(r) ==
  /\ Finished(r)
  /\ At(r, "Respond") = {Len(events[r])}
  /\ events[r][Len(events[r])].arg = req[r].resp.code
  /\ req[r].resp.code \in {200, 400, 404, 405, 500}

\* the k-th call of request r ended in a terminal error: a failed catalog
\* lookup, download or final write, or a fallback-language search without a
\* candidate
TerminalError(r, k) ==
  \/ events[r][k].op \in {"GetItem", "Download", "WriteFile"} /\ ~events[r][k].ok
  \/ /\ events[r][k].op = "Search" /\ events[r][k].arg[1] = "en"
     /\ (~events[r][k].ok \/ events[r][k].arg[2] = <<>>)

\* C15: every call returning in the end, every request comes to answer, and
\* from then on it has answered exactly once and makes no further step.  At
\* any time, a request that has answered made no step after its answer, and
\* a call that ended in a terminal error is followed by the answer (not 200)
\* and by nothing else: no search, download, translation, write or refresh.
C15_TerminatesWithOneResponse ==
  /\ \A r \in Requests : <>[]AnsweredOnce(r)
  /\ [](\A r \in Requests :
         /\ At(r, "Respond") # {} => AnsweredOnce(r)
         /\ \A k \in 1..Len(events[r]) :
              TerminalError(r, k) =>
                /\ Len(events[r]) = k + 1
                /\ events[r][k + 1].op = "Respond" /\ events[r][k + 1].arg # 200)

\* C15's case: a request has waited between translation attempts and then
\* answered with a terminal error, the failed write its last call
C15_Witness ==
  \E r \in DOMAIN req :
    /\ AnsweredOnce(r) /\ req[r].resp.code = 500
    /\ At(r, "Sleep") # {}
    /\ LastCallFailed(r, "WriteFile")

\* the blocks request r's document was put together from
DocumentBlocks(r) == events[r][1].arg

\* the entries of the well-formed blocks among blocks, in their order, the
\* text as written when asWritten, else without the white space around it
RECURSIVE EntriesOf(_, _)
EntriesOf(blocks, asWritten) ==
  IF blocks = <<>> THEN <<>>
  ELSE (IF Head(blocks).wellFormed
        THEN << [Index     |-> Head(blocks).Index,
                 StartTime |-> Head(blocks).StartTime,
                 EndTime   |-> Head(blocks).EndTime,
                 Text      |-> IF asWritten THEN Head(blocks).text
                               ELSE TrimSpace(Head(blocks).text)] >>
        ELSE <<>>)
       \o EntriesOf(Tail(blocks), asWritten)

\* C16 as stated: the output of Format for what Parse gave holds, in order,
\* one entry for each well-formed block of the document and none for a
\* malformed one, with the block's index, its timestamps, and its text as
\* written but for the line ends.
C16_RoundTripKeepsText ==
  \A r \in DOMAIN req :
    req[r].pc = "Formatted" =>
      Parse(req[r].content) = EntriesOf(DocumentBlocks(r), TRUE)

\* C16, amended: the output of Format for what Parse gave holds, in order,
\* one entry for each well-formed block of the document and none for a
\* malformed one, with the block's index, its timestamps, and its text but
\* for the line ends and the white space at the start and at the end of the
\* text, which is removed; no carriage return is left in the output.
C16_RoundTripTrimsText ==
  \A r \in DOMAIN req :
    req[r].pc = "Formatted" =>
      /\ Parse(req[r].content) = EntriesOf(DocumentBlocks(r), FALSE)
      /\ \A k \in 1..Len(req[r].content) : req[r].content[k] # "\r"

\* C16's case: a document of a malformed block and a well-formed one with
\* CRLF line ends and index 7 has gone through Parse and Format
C16_Witness ==
  \E r \in DOMAIN req :
    /\ req[r].pc = "Formatted"
    /\ Len(DocumentBlocks(r)) = 2
    /\ ~DocumentBlocks(r)[1].wellFormed
    /\ DocumentBlocks(r)[2].wellFormed /\ DocumentBlocks(r)[2].Index = 7
    /\ Len(req[r].entries) = 1

\* C17: Parse returns no error, and its entries are, in order, one for each
\* block that has an integer index line, a timing line and a text line, with
\* that block's index, timestamps and text; a block that lacks one of the
\* three gives no entry and leaves the entries of the blocks around it as
\* they are.
C17_MalformedBlocksAreSkipped ==
  \A r \in DOMAIN req :
    /\ \A k \in At(r, "Parse") : events[r][k].ok
    /\ At(r, "Parse") # {} =>
         req[r].entries = EntriesOf(DocumentBlocks(r), FALSE)

\* C17's case: Parse has read a document whose first block has no timing
\* line and whose second block is well formed, and has given one entry
C17_Witness ==
  \E r \in DOMAIN req :
    /\ At(r, "Parse") # {}
    /\ Len(DocumentBlocks(r)) = 2
    /\ ~DocumentBlocks(r)[1].wellFormed
    /\ DocumentBlocks(r)[1].raw[1] = "4"
    /\ DocumentBlocks(r)[2].wellFormed
    /\ Len(req[r].entries) = 1 /\ req[r].entries[1].Index = DocumentBlocks(r)[2].Index

\* the language tags that stand for the target language
TargetTags == {"zh-TW", "zh-Hant", "chi"}

\* item has a stream of subtitle kind, not flagged external, whose language
\* tag is one of TargetTags
HasEmbeddedTargetSubtitle(item) ==
  \E k \in 1..Len(item.MediaStreams) :
    /\ item.MediaStreams[k].Type = "Subtitle"
    /\ ~item.MediaStreams[k].IsExternal
    /\ item.MediaStreams[k].Language \in TargetTags

\* the items the catalog listed to request r, and those the filter returned
Listed(r) == events[r][1].arg.Items
Returned(r) == events[r][2].arg

\* request r's call of the filter has returned without an error
FilterReturned(r) ==
  /\ Len(events[r]) >= 2
  /\ events[r][2].op = "GetMediaWithoutChineseSubtitles" /\ events[r][2].ok

\* C18: an item with a non-external subtitle stream whose tag is one of
\* zh-TW, zh-Hant, chi is not among the items the filter returns.
C18_SubtitledItemsExcluded ==
  \A r \in DOMAIN req :
    FilterReturned(r) =>
      \A k \in 1..Len(Listed(r)) :
        HasEmbeddedTargetSubtitle(Listed(r)[k]) =>
          \A j \in 1..Len(Returned(r)) : Returned(r)[j] # Listed(r)[k]

\* C18's case: the catalog lists an item with an embedded chi subtitle and
\* an item without any stream; the filter returns the second alone
C18_Witness ==
  \E r \in DOMAIN req :
    /\ FilterReturned(r)
    /\ Len(Listed(r)) = 2
    /\ Listed(r)[1].ID = "n3" /\ Listed(r)[2].ID = "n0"
    /\ Returned(r) = <<Listed(r)[2]>>

\* the items of items, in order, that have no embedded target subtitle
RECURSIVE WithoutEmbeddedTargetSubtitle(_)
WithoutEmbeddedTargetSubtitle(items) ==
  IF items = <<>> THEN <<>>
  ELSE (IF ~HasEmbeddedTargetSubtitle(Head(items)) THEN <<Head(items)>> ELSE <<>>)
       \o WithoutEmbeddedTargetSubtitle(Tail(items))

\* C19 as stated: the filter returns, in catalog order, exactly the items
\* without a non-external subtitle stream tagged zh-TW, zh-Hant or chi; so an
\* item whose only such stream is flagged external is returned, and so is an
\* item without stream or path data.
C19_ExactlyTheUnsubtitledItems ==
  \A r \in DOMAIN req :
    FilterReturned(r) => Returned(r) = WithoutEmbeddedTargetSubtitle(Listed(r))

\* the search at position k of request r's record returned an error
SearchErred(r, k) == events[r][k].op = "Search" /\ ~events[r][k].ok

\* the search at position k of request r's record returned no candidate
SearchEmpty(r, k) ==
  events[r][k].op = "Search" /\ events[r][k].ok /\ events[r][k].arg[2] = <<>>

\* request r waits for its fallback-language search, having changed nothing
\* but its position since GetItem returned
AtFallbackSearch(r) ==
  /\ req[r].pc = "SearchFallback"
  /\ req[r].subtitle = NewRequest.subtitle /\ req[r].language = NewRequest.language
  /\ req[r].translating = NewRequest.translating

\* C20: a search that errors is handled as a search without candidates is.
\* After either on the target language, the request's next call is the search
\* of the fallback language, and until it returns the request holds no
\* candidate; after either on the fallback language, the request answers 404,
\* no subtitles found, with no call in between.  A request searches each
\* language once at most.
C20_SearchErrorIsNoCandidate ==
  \A r \in DOMAIN req :
    /\ \A k \in SearchAt(r, "zh-TW") :
         (SearchErred(r, k) \/ SearchEmpty(r, k)) =>
           IF k = Len(events[r]) THEN AtFallbackSearch(r)
           ELSE events[r][k + 1].op = "Search" /\ events[r][k + 1].arg[1] = "en"
    /\ \A k \in SearchAt(r, "en") :
         (SearchErred(r, k) \/ SearchEmpty(r, k)) =>
           /\ Len(events[r]) = k + 1
           /\ events[r][k + 1] = Event("Respond", 404, FALSE)
           /\ Finished(r)
           /\ req[r].resp.code = 404 /\ req[r].resp.msg = "No subtitles found"
    /\ \A lang \in {"zh-TW", "en"} : Cardinality(SearchAt(r, lang)) <= 1

\* C20's case: the target-language search errored, the fallback-language
\* search was made next and errored, and the request answered 404
C20_Witness ==
  \E r \in DOMAIN req :
    /\ \E k \in SearchAt(r, "zh-TW") :
         /\ SearchErred(r, k)
         /\ k + 1 \in SearchAt(r, "en") /\ SearchErred(r, k + 1)
    /\ Finished(r) /\ req[r].resp.code = 404

\* n, from 0 to 99, written with two digits
TwoDigits(n) == <<DigitChars[(n \div 10) + 1], DigitChars[(n % 10) + 1]>>

\* the year 1999 written out
Year1999 == <<"1", "9", "9", "9">>

\* the search query of request r has been built
QueryBuilt(r) == At(r, "GetSearchQuery") # {}

ResolvedMediaAt(r) == At(r, "Remove")
ResolvedDownloadsAt(r) ==
  {k \in At(r, "MkdirAll") : events[r][k].arg = config.SubtitleDirectory}

\* C22: in a request that has answered 200 the save target was resolved
\* once, as media or as downloads; os.WriteFile was called once, after that,
\* with the path resolved: under the media directory that was probed when the
\* class is media, under the downloads directory when it is not; and the
\* answer names the media directory exactly when the class is media, the
\* downloads directory otherwise.
C22_TargetResolvedOnce ==
  \A r \in DOMAIN req :
    Succeeded(r) =>
      /\ Cardinality(ResolvedMediaAt(r) \cup ResolvedDownloadsAt(r)) = 1
      /\ Cardinality(At(r, "WriteFile")) = 1
      /\ \A k \in ResolvedMediaAt(r) \cup ResolvedDownloadsAt(r), w \in At(r, "WriteFile") :
           /\ k < w
           /\ events[r][w].ok
           /\ IF k \in ResolvedMediaAt(r)
              THEN /\ events[r][k].arg = MarkerIn(ExpectedMediaDir)
                   /\ events[r][w].arg =
                        ExpectedMediaDir \o <<"/">> \o ExpectedFileName(req[r].itemID)
                   /\ req[r].saveLocation = "media"
              ELSE /\ events[r][w].arg =
                        config.SubtitleDirectory \o <<"/">> \o ExpectedFileName(req[r].itemID)
                   /\ req[r].saveLocation = "downloads"
           /\ FileExists(fs, events[r][w].arg)
           /\ req[r].resp.msg = "saved to media directory" <=> k \in ResolvedMediaAt(r)
           /\ req[r].resp.msg = "saved to downloads directory" <=> k \in ResolvedDownloadsAt(r)

\* C22's case: a request has answered 200 after its probe of the media
\* directory failed at the marker file, and names the downloads directory
C22_Witness ==
  \E r \in DOMAIN req :
    /\ Succeeded(r)
    /\ \E k \in At(r, "Create") : ~events[r][k].ok
    /\ ResolvedDownloadsAt(r) # {}
    /\ req[r].resp.msg = "saved to downloads directory"

\* C22's other case: a request has answered 200 with the media class
C22_WitnessMedia ==
  \E r \in DOMAIN req :
    Succeeded(r) /\ ResolvedMediaAt(r) # {} /\ req[r].resp.msg = "saved to media directory"

\* the path a subtitle for the item with this id goes to, from the item,
\* the configuration and the filesystem alone: next to the media when direct
\* save is on and the media directory can take files, under the downloads
\* directory when not
ExpectedDestination(itemID) ==
  (IF config.EnableDirectSave /\ Usable(ExpectedMediaDir)
   THEN ExpectedMediaDir
   ELSE config.SubtitleDirectory) \o <<"/">> \o ExpectedFileName(itemID)

\* C23: the file a request writes is named <media base name>.zh-Hant.srt and
\* goes to the path that the item, the configuration and the filesystem
\* give, be the subtitle a target-language candidate saved as it is or the
\* translation of a fallback-language candidate.
C23_SameDestinationOnBothPaths ==
  \A r \in DOMAIN req :
    \A w \in At(r, "WriteFile") :
      /\ events[r][w].arg = ExpectedDestination(req[r].itemID)
      /\ Base(events[r][w].arg) = ExpectedFileName(req[r].itemID)
      /\ SearchHit(r, "zh-TW") \/ SearchHit(r, "en")

\* C23's case: a translation of a fallback-language candidate has been
\* written, to the path named with zh-Hant
C23_Witness ==
  \E r \in DOMAIN req :
    /\ req[r].translating /\ SearchHit(r, "en") /\ Written(r)
    /\ FileExists(fs, ExpectedDestination(req[r].itemID))

\* C23's other case: a target-language candidate has been written as it is
C23_WitnessDirect ==
  \E r \in DOMAIN req :
    /\ ~req[r].translating /\ SearchHit(r, "zh-TW") /\ Written(r)
    /\ FileExists(fs, ExpectedDestination(req[r].itemID))

\* path begins with prefix, character by character
StartsWith(path, prefix) ==
  /\ Len(prefix) <= Len(path)
  /\ \A i \in 1..Len(prefix) : path[i] = prefix[i]

\* path without its first n characters
DropFirst(path, n) == [i \in 1..(Len(path) - n) |-> path[i + n]]

\* C24: when both prefixes are configured and the path starts with the
\* source prefix, the mapped path is the destination prefix followed by the
\* rest of the path, whatever the rest holds; when the path does not start
\* with the source prefix, or a prefix is not configured, the mapped path is
\* the path.
C24_PathMapping ==
  \A r \in DOMAIN req :
    \A k \in At(r, "MapJellyfinPathToContainer") :
      LET path   == req[r].videoPath
          mapped == events[r][k].arg
          src    == config.JellyfinPathPrefix
          dst    == config.ContainerPathPrefix
      IN IF src # <<>> /\ dst # <<>> /\ StartsWith(path, src)
         THEN mapped = dst \o DropFirst(path, Len(src))
         ELSE mapped = path

\* C24's case: /d/d/F is mapped with /d to /d/m, to /d/m/d/F: the leading
\* /d alone is replaced, not the second, and not the one the destination
\* prefix brings
C24_Witness ==
  \E r \in DOMAIN req :
    /\ config.JellyfinPathPrefix = <<"/", "d">>
    /\ config.ContainerPathPrefix = <<"/", "d", "/", "m">>
    /\ req[r].videoPath = <<"/", "d", "/", "d", "/", "F">>
    /\ \E k \in At(r, "MapJellyfinPathToContainer") :
         events[r][k].arg = <<"/", "d", "/", "m", "/", "d", "/", "F">>

\* C24's other case: /x/d/F holds /d but does not start with it, and is
\* returned as it is
C24_WitnessUnchanged ==
  \E r \in DOMAIN req :
    /\ config.JellyfinPathPrefix = <<"/", "d">>
    /\ config.ContainerPathPrefix = <<"/", "m">>
    /\ req[r].videoPath = <<"/", "x", "/", "d", "/", "F">>
    /\ \E k \in At(r, "MapJellyfinPathToContainer") : events[r][k].arg = req[r].videoPath

\* C25: when GetItem returns an error, the request answers 500, failed to
\* get item details, with the text of that error, and this is the one thing
\* it does: its record holds no search, no download, no translation, no
\* filesystem call and no metadata refresh, and the files are those that
\* were there before.
C25_LookupFailureEndsRequest ==
  \A r \in DOMAIN req :
    \A k \in At(r, "GetItem") :
      ~events[r][k].ok =>
        /\ k = 1 /\ Len(events[r]) = 2
        /\ events[r][2] = Event("Respond", 500, FALSE)
        /\ Finished(r)
        /\ req[r].resp.code = 500 /\ req[r].resp.msg = "Failed to get item details"
        /\ events[r][k].arg[2] \in GetItemErrors
        /\ req[r].resp.detail = events[r][k].arg[2]
        /\ \A j \in 1..Len(events[r]) : events[r][j].op \notin EffectOps \cup {"Search"}
        /\ \A x \in fs.files : x.path \in fs.readonly

\* C25's case: the catalog answered the lookup with a status other than 200,
\* and the request has answered 500 with that error
C25_Witness ==
  \E r \in DOMAIN req :
    /\ \E k \in At(r, "GetItem") : ~events[r][k].ok /\ events[r][k].arg[2] = "API error"
    /\ Finished(r) /\ req[r].resp.code = 500 /\ req[r].resp.detail = "API error"

\* C26 as stated: every entry Parse gives has an index of 1 or more, which
\* is the integer on the index line of its block; the indices of successive
\* entries are those of their blocks, gaps and all.
C26_IndexIsPositive ==
  \A r \in DOMAIN req :
    At(r, "Parse") # {} =>
      /\ Len(req[r].entries) = Len(EntriesOf(DocumentBlocks(r), FALSE))
      /\ \A i \in 1..Len(req[r].entries) :
           /\ req[r].entries[i].Index = EntriesOf(DocumentBlocks(r), FALSE)[i].Index
           /\ req[r].entries[i].Index >= 1

\* the part of C26 that is about the index line alone: the index of every
\* entry is the integer on the index line of its block
C26_IndexIsFromIndexLine ==
  \A r \in DOMAIN req :
    At(r, "Parse") # {} =>
      /\ Len(req[r].entries) = Len(EntriesOf(DocumentBlocks(r), FALSE))
      /\ \A i \in 1..Len(req[r].entries) :
           req[r].entries[i].Index = EntriesOf(DocumentBlocks(r), FALSE)[i].Index

\* the backend's reply to attempt n for an entry of request r
ReplyTo(r, n) == events[r][1].arg[n]

\* the reply is a body whose first character after white space is "<"
HTMLShaped(reply) ==
  /\ ~reply.err
  /\ \E i \in 1..Len(reply.body) :
       /\ reply.body[i] = "<"
       /\ \A j \in 1..(i - 1) : reply.body[j] \in {" ", "\t", "\n", "\r"}

\* the reply is a body that holds the translation and white space only
IsTranslation(reply) ==
  /\ ~reply.err
  /\ \E i \in 1..Len(reply.body) :
       /\ reply.body[i] = "[[[t]]]"
       /\ \A j \in 1..Len(reply.body) : j # i => reply.body[j] \in {" ", "\t", "\n", "\r"}

\* C27: a call of the translator (for an entry with a text) that the
\* backend answers with a body starting, after white space, with "<" returns
\* an error.  It is one failed attempt: before the last attempt the wait and
\* the next attempt for the same entry follow, and that attempt succeeds when
\* the backend answers it with the translation; at the last attempt the
\* entry is taken with its original text.
C27_HTMLResponseIsFailedAttempt ==
  \A r \in DOMAIN req :
    \A k \in At(r, "Translate") :
      LET i == events[r][k].arg[1]
          n == events[r][k].arg[2]
      IN (req[r].entries[i].Text # <<>> /\ HTMLShaped(ReplyTo(r, n))) =>
           /\ ~events[r][k].ok
           /\ (n < MaxRetries /\ Len(events[r]) <= k + 1) => Len(req[r].translated) < i
           /\ (n < MaxRetries /\ Len(events[r]) > k) => events[r][k + 1].op = "Sleep"
           /\ (n < MaxRetries /\ Len(events[r]) > k + 1) =>
                /\ events[r][k + 2].op = "Translate"
                /\ events[r][k + 2].arg = <<i, n + 1>>
                /\ IsTranslation(ReplyTo(r, n + 1)) =>
                     /\ events[r][k + 2].ok
                     /\ req[r].translated[i].Text =
                          BackendText(cleanTextForTranslation(req[r].entries[i].Text))
           /\ n = MaxRetries =>
                /\ Len(req[r].translated) >= i
                /\ req[r].translated[i].Text = req[r].entries[i].Text

\* C27's case: the backend answered the first attempt for an entry with an
\* HTML page after white space and the second with the translation; the
\* entry is translated
C27_Witness ==
  \E r \in DOMAIN req :
    /\ ReplyTo(r, 1).body = <<"\n", " ", "<", "!", ">">>
    /\ IsTranslation(ReplyTo(r, 2))
    /\ \E k \in At(r, "Translate") :
         /\ events[r][k].arg = <<1, 1>> /\ ~events[r][k].ok
         /\ Len(events[r]) >= k + 2
         /\ events[r][k + 2].arg = <<1, 2>> /\ events[r][k + 2].ok
    /\ Len(req[r].translated) >= 1
    /\ req[r].translated[1].Text # req[r].entries[1].Text

\* C27's other case: the backend answered every attempt for an entry with an
\* HTML page, and the entry is taken with its original text
C27_WitnessExhausted ==
  \E r \in DOMAIN req :
    /\ \A n \in 1..MaxRetries : HTMLShaped(ReplyTo(r, n))
    /\ Len(req[r].translated) >= 1
    /\ req[r].entries[1].Text # <<>>
    /\ req[r].translated[1].Text = req[r].entries[1].Text

\* C28: once the catalog has returned the item, the path the request names
\* and places the subtitle by is the path of the item's first media source
\* when it has one media source or more, and the item's own path when it has
\* none.
C28_VideoPathPrefersMediaSource ==
  \A r \in DOMAIN req :
    (\E k \in At(r, "GetItem") : events[r][k].ok) =>
      LET item == req[r].item
      IN /\ Len(item.MediaSources) >= 1 => req[r].videoPath = item.MediaSources[1].Path
         /\ Len(item.MediaSources) = 0 => req[r].videoPath = item.Path

\* C28's case: the item has two media sources with different paths, both
\* other than its own path, and the request goes on with the first
C28_Witness ==
  \E r \in DOMAIN req :
    /\ \E k \in At(r, "GetItem") : events[r][k].ok
    /\ Len(req[r].item.MediaSources) = 2
    /\ req[r].item.MediaSources[1].Path # req[r].item.MediaSources[2].Path
    /\ req[r].item.MediaSources[1].Path # req[r].item.Path
    /\ req[r].item.MediaSources[2].Path # req[r].item.Path
    /\ req[r].videoPath = req[r].item.MediaSources[1].Path

\* C28's other case: the item has no media source, and the request goes on
\* with the item's own path
C28_WitnessNominal ==
  \E r \in DOMAIN req :
    /\ \E k \in At(r, "GetItem") : events[r][k].ok
    /\ req[r].item.MediaSources = <<>> /\ req[r].item.Path # <<>>
    /\ req[r].videoPath = req[r].item.Path

\* the positions in request r's record of os.MkdirAll on the downloads
\* directory
StagingMkdirAt(r) ==
  {k \in At(r, "MkdirAll") : events[r][k].arg = config.SubtitleDirectory}

\* C29: when a request saves to the downloads (staging) directory,
\* os.MkdirAll is called on it once, and leaves it in place unless it fails;
\* no marker file is created in it and it is not probed in any other way;
\* whether os.MkdirAll failed or not, the next call is os.WriteFile on the
\* path under the downloads directory.  When os.MkdirAll failed, that write
\* fails, and the request answers 500 with the write failure.
C29_StagingIsNotProbed ==
  \A r \in DOMAIN req :
    /\ req[r].saveLocation = "downloads" <=> StagingMkdirAt(r) # {}
    /\ Cardinality(StagingMkdirAt(r)) <= 1
    /\ \A j \in 1..Len(events[r]) :
         /\ events[r][j].op \in {"Create", "Remove"} =>
              events[r][j].arg # MarkerIn(config.SubtitleDirectory)
         /\ events[r][j].op = "Stat" => events[r][j].arg # config.SubtitleDirectory
    /\ ~FileExists(fs, MarkerIn(config.SubtitleDirectory))
    /\ \A k \in StagingMkdirAt(r) :
         /\ events[r][k].ok => DirExists(fs, config.SubtitleDirectory)
         /\ ~events[r][k].ok => ~DirExists(fs, config.SubtitleDirectory)
         /\ req[r].subtitlePath =
              config.SubtitleDirectory \o <<"/">> \o ExpectedFileName(req[r].itemID)
         /\ IF Len(events[r]) = k
            THEN req[r].pc = "WriteFile"
            ELSE /\ events[r][k + 1].op = "WriteFile"
                 /\ events[r][k + 1].arg = req[r].subtitlePath
                 /\ ~events[r][k].ok =>
                      /\ ~events[r][k + 1].ok
                      /\ Finished(r) /\ req[r].resp.code = 500
                      /\ req[r].resp.detail = "failed to write subtitle file"
                      /\ ~FileExists(fs, req[r].subtitlePath)

\* C29's case: the downloads directory was absent and could not be created;
\* the request went on to write under it and has answered 500
C29_Witness ==
  \E r \in DOMAIN req :
    /\ \E k \in StagingMkdirAt(r) :
         /\ ~events[r][k].ok
         /\ Len(events[r]) > k /\ events[r][k + 1].op = "WriteFile"
    /\ Finished(r) /\ req[r].resp.code = 500

\* the steps of a request up to the return of the download, and its
\* translation: all that comes before generateSubtitlePath
BeforeSave ==
  {"ProcessHandler", "GetItem", "SearchTarget", "SearchFallback", "DownloadDirect",
   "DownloadFallback", "TranslateEntries", "Translate", "Sleep"}

\* request r has answered with the failure of the catalog lookup, of both
\* searches, or of a download
FailedBeforeSave(r) ==
  /\ Finished(r)
  /\ \/ req[r].resp.code = 500 /\ req[r].resp.msg = "Failed to get item details"
     \/ req[r].resp.code = 404
     \/ /\ req[r].resp.code = 500
        /\ req[r].resp.detail \in {"failed to download subtitle",
                                   "failed to download English subtitle"}

\* the calls that touch the filesystem
FileOps == {"Stat", "MkdirAll", "Create", "Remove", "WriteFile"}

\* C30: a request that answers with the failure of the catalog lookup, of
\* both searches or of a download has made no call on the filesystem, and no
\* step of a request that has not come to the save leaves the filesystem
\* other than it found it: no directory is created, no marker file, no
\* subtitle file created or changed.
C30_FailureBeforeSaveLeavesFiles ==
  /\ [](\A r \in DOMAIN req :
          FailedBeforeSave(r) =>
            /\ \A k \in 1..Len(events[r]) : events[r][k].op \notin FileOps
            /\ req[r].saveLocation = "" /\ req[r].subtitlePath = <<>>)
  /\ [][(\A r \in DOMAIN req : req[r].pc \in BeforeSave \/ FailedBeforeSave(r))
          => fs' = fs]_vars

\* C30's case: the download of the fallback-language candidate failed, and
\* the directories that were absent are absent still, with no file anywhere
C30_Witness ==
  \E r \in DOMAIN req :
    /\ FailedBeforeSave(r)
    /\ req[r].resp.detail = "failed to download English subtitle"
    /\ config.EnableDirectSave
    /\ config.SubtitleDirectory \in fs.creatable
    /\ ExpectedMediaDir \in fs.creatable
    /\ fs.files = {}

\* a marker file of the probe is somewhere in the filesystem
MarkerLeft ==
  \E x \in fs.files : Base(x.path) = <<".", "subtitle-hunter-write-test">>

\* the media directory of the item with this id under the prefix mapping of
\* the two-request runs: /m/G for ep9, /m/F for the others
ProbedDir(itemID) ==
  IF itemID = "ep9" THEN <<"/", "m", "/", "G">> ELSE <<"/", "m", "/", "F">>

\* request r is inside the probe, between os.Create and os.Remove
InsideProbe(r) == req[r].pc = "Remove"

\* C31: a marker file is there only while a request is between the
\* os.Create and the os.Remove of its probe: when a probe returns, and no
\* other is under way, none is left.  With two requests at once on
\* directories that take new files, every os.Create of the marker succeeds
\* and every probe returns success, the class media, in whatever order the
\* two requests create and remove the marker they share.
C31_ConcurrentProbesSucceed ==
  /\ (\A r \in DOMAIN req : ~InsideProbe(r)) => ~MarkerLeft
  /\ \A r \in DOMAIN req :
       /\ \A k \in At(r, "Create") :
            /\ events[r][k].arg = MarkerIn(ProbedDir(req[r].itemID))
            /\ events[r][k].ok
       /\ \A k \in At(r, "Remove") :
            /\ k > 1 /\ events[r][k - 1].op = "Create"
            /\ req[r].saveLocation = "media"
       /\ (config.EnableDirectSave /\ req[r].saveLocation # "") => req[r].saveLocation = "media"

\* C31's case: two requests probe the same directory; the second created
\* the marker after the first, the first has removed it and returned
\* success, and the second is yet to call os.Remove on the file that is gone
C31_Witness ==
  /\ req[1].itemID = req[2].itemID
  /\ At(1, "Remove") # {} /\ req[1].saveLocation = "media"
  /\ InsideProbe(2) /\ At(2, "Create") # {}
  /\ ~MarkerLeft

\* C31's other case: both requests have created the marker and neither has
\* removed it
C31_WitnessOverlap ==
  /\ req[1].itemID = req[2].itemID
  /\ InsideProbe(1) /\ InsideProbe(2) /\ MarkerLeft

\* C31's last case: both probes, having overlapped or not, have returned
\* success and both requests have answered 200
C31_WitnessBothDone ==
  /\ req[1].itemID = req[2].itemID
  /\ \A r \in DOMAIN req :
       At(r, "Remove") # {} /\ Succeeded(r) /\ req[r].saveLocation = "media"
  /\ ~MarkerLeft

\* request r has downloaded a fallback-language file that Parse gives no
\* entry for
NothingToTranslate(r) ==
  /\ req[r].translating /\ Downloaded(r)
  /\ req[r].entries = <<>>
  /\ Parse(ProviderFiles[FirstCandidate(r, "en").FileID]) = <<>>

\* C32: when the fallback-language file a request has downloaded parses to
\* no entry, the translator is not called and nothing is waited; the request
\* resolves its save target and writes the empty document to it; once that
\* is written, the metadata refresh is the next call, and the answer is 200
\* whether the refresh fails or not.  (A failed write is the one other end.)
C32_NoEntriesIsSuccess ==
  \A r \in DOMAIN req :
    NothingToTranslate(r) =>
      /\ At(r, "Translate") = {} /\ At(r, "Sleep") = {}
      /\ \A w \in At(r, "WriteFile") :
           /\ req[r].content = <<>>
           /\ events[r][w].arg = ExpectedDestination(req[r].itemID)
           /\ events[r][w].ok =>
                /\ FileExists(fs, events[r][w].arg)
                /\ FileData(events[r][w].arg) = <<>>
                /\ Len(events[r]) > w => events[r][w + 1].op = "RefreshMetadata"
      /\ Finished(r) =>
           /\ At(r, "WriteFile") # {}
           /\ Written(r) <=> req[r].resp.code = 200
           /\ Written(r) => At(r, "RefreshMetadata") # {}
           /\ ~Written(r) => req[r].resp.detail = "failed to write subtitle file"

\* C32's case: the one block of the fallback-language file has no timing
\* line; the request has saved an empty file, the refresh has failed, and
\* the answer is 200
C32_Witness ==
  \E r \in DOMAIN req :
    /\ NothingToTranslate(r)
    /\ Succeeded(r)
    /\ FileExists(fs, req[r].subtitlePath) /\ FileData(req[r].subtitlePath) = <<>>
    /\ \E k \in At(r, "RefreshMetadata") : ~events[r][k].ok

\* the positions in request r's record of the translator calls for entry i
CallsFor(r, i) == {k \in At(r, "Translate") : events[r][k].arg[1] = i}

\* the seconds waited at the positions S of request r's record
RECURSIVE Waited(_, _)
Waited(r, S) ==
  IF S = {} THEN 0
  ELSE LET k == CHOOSE x \in S : TRUE
       IN events[r][k].arg + Waited(r, S \ {k})

\* the positions of the waits made for entry i: each comes right before a
\* call for entry i
WaitsFor(r, i) == {k \in At(r, "Sleep") : k + 1 \in CallsFor(r, i)}

\* TranslateEntries has returned to request r
TranslateEntriesReturned(r) == req[r].pc = "generateSubtitlePath"

\* C33: with N entries, a request never has more than 3N translator calls
\* nor more than 3N seconds of wait on record.  When TranslateEntries has
\* returned, there are N calls at least; an entry whose call first succeeded
\* at attempt k has k calls (and the waits before attempts 2 to k); an entry
\* given up has 3 calls and 1 + 2 = 3 seconds of wait, none after its last
\* call; every wait is the wait for an entry; and when no call has failed
\* there are N calls and no wait.
C33_CallAndWaitBounds ==
  \A r \in DOMAIN req :
    LET N == Len(req[r].entries)
    IN /\ Cardinality(At(r, "Translate")) <= 3 * N
       /\ Waited(r, At(r, "Sleep")) <= 3 * N
       /\ TranslateEntriesReturned(r) =>
            /\ Cardinality(At(r, "Translate")) >= N
            /\ At(r, "Sleep") = UNION {WaitsFor(r, i) : i \in 1..N}
            /\ \A i \in 1..N :
                 /\ \A k \in CallsFor(r, i) :
                      events[r][k].ok =>
                        /\ Cardinality(CallsFor(r, i)) = events[r][k].arg[2]
                        /\ Waited(r, WaitsFor(r, i)) =
                             (events[r][k].arg[2] * (events[r][k].arg[2] - 1)) \div 2
                 /\ (\A k \in CallsFor(r, i) : ~events[r][k].ok) =>
                      /\ Cardinality(CallsFor(r, i)) = 3
                      /\ Waited(r, WaitsFor(r, i)) = 3
                      /\ \A k \in CallsFor(r, i) :
                           (events[r][k].arg[2] = 3 /\ k < Len(events[r])) =>
                             events[r][k + 1].op # "Sleep"
            /\ (\A k \in At(r, "Translate") : events[r][k].ok) =>
                 /\ Cardinality(At(r, "Translate")) = N
                 /\ At(r, "Sleep") = {}

\* C33's case: of two entries the first is given up (3 calls, 3 seconds) and
\* the second translated at its second attempt (2 calls, 1 second): 5 calls
\* and 4 seconds in all
C33_Witness ==
  \E r \in DOMAIN req :
    /\ TranslateEntriesReturned(r) /\ Len(req[r].entries) = 2
    /\ Exhausted(r, 1)
    /\ \E k \in CallsFor(r, 2) : events[r][k].ok /\ events[r][k].arg[2] = 2
    /\ Cardinality(At(r, "Translate")) = 5
    /\ Waited(r, At(r, "Sleep")) = 4

\* C33's other cases: the most there can be, 3N calls and 3N seconds; and
\* the least, N calls and no wait
C33_WitnessMost ==
  \E r \in DOMAIN req :
    /\ TranslateEntriesReturned(r) /\ Len(req[r].entries) = 2
    /\ Cardinality(At(r, "Translate")) = 6 /\ Waited(r, At(r, "Sleep")) = 6

C33_WitnessLeast ==
  \E r \in DOMAIN req :
    /\ TranslateEntriesReturned(r) /\ Len(req[r].entries) = 2
    /\ Cardinality(At(r, "Translate")) = 2 /\ At(r, "Sleep") = {}

\* the entries the first Parse of request r gave: what Format was called with
FirstParsed(r) == events[r][CHOOSE k \in At(r, "Format") : TRUE].arg

\* text holds a carriage return right before a line end
RECURSIVE HoldsCRLF(_)
HoldsCRLF(text) ==
  /\ Len(text) >= 2
  /\ \/ (text[1] = "\r" /\ text[2] = "\n")
     \/ HoldsCRLF(Tail(text))

\* C34 as stated: for every document, Parse of what Format wrote for the
\* entries of a first Parse gives those entries again, index, timestamps
\* and text, so that Format of them is the same content again.
C34_ReparseIsStable ==
  \A r \in DOMAIN req :
    req[r].pc = "Reparsed" =>
      /\ req[r].entries = FirstParsed(r)
      /\ Format(req[r].entries) = req[r].content

\* the part of C34 that the code keeps: the second Parse differs from the
\* first only for a document whose first Parse left a carriage return
\* before a line end in the text of an entry; for every other document,
\* well formed or not, the entries and the content come back as they were,
\* and in every case the first entry's index and timestamps do.
C34_StableWithoutStrayCR ==
  \A r \in DOMAIN req :
    req[r].pc = "Reparsed" =>
      /\ (\A i \in 1..Len(FirstParsed(r)) : ~HoldsCRLF(FirstParsed(r)[i].Text)) =>
           /\ req[r].entries = FirstParsed(r)
           /\ Format(req[r].entries) = req[r].content
      /\ FirstParsed(r) # <<>> =>
           /\ req[r].entries # <<>>
           /\ req[r].entries[1].Index = FirstParsed(r)[1].Index
           /\ req[r].entries[1].StartTime = FirstParsed(r)[1].StartTime
           /\ req[r].entries[1].EndTime = FirstParsed(r)[1].EndTime

\* the stable case happens: a malformed block and a well-formed one with
\* CRLF line ends have been parsed, formatted and parsed again
C34_WitnessStable ==
  \E r \in DOMAIN req :
    /\ req[r].pc = "Reparsed"
    /\ Len(DocumentBlocks(r)) = 2
    /\ ~DocumentBlocks(r)[1].wellFormed
    /\ DocumentBlocks(r)[2].Index = 7
    /\ req[r].entries = FirstParsed(r) /\ Len(req[r].entries) = 1

\* the unstable case happens: one entry at the first Parse, two at the second
C34_WitnessSplit ==
  \E r \in DOMAIN req :
    /\ req[r].pc = "Reparsed"
    /\ Len(FirstParsed(r)) = 1 /\ Len(req[r].entries) = 2

\* request r was turned away by ProcessHandler's own checks
Rejected(r) == Finished(r) /\ req[r].resp.code \in {400, 405}

\* C35: a request answered 405 (method not allowed) or 400 (item id
\* required) has nothing on record but that answer: no catalog lookup, no
\* search, no download, no translation, no filesystem call, no refresh; it
\* holds no item, and the step that answered it left the filesystem as it
\* was.  Every request that got past these checks has an item id.
C35_RejectedBeforeAnyAction ==
  /\ [](\A r \in DOMAIN req :
          /\ Rejected(r) =>
               /\ events[r] = <<Event("Respond", req[r].resp.code, FALSE)>>
               /\ req[r].resp.msg =
                    (IF req[r].resp.code = 405 THEN "Method not allowed"
                     ELSE "Item ID required")
               /\ req[r].itemID = "" /\ req[r].item = NoItem
          /\ (req[r].pc # "ProcessHandler" /\ ~Rejected(r)) => req[r].itemID # "")
  /\ [][\A r \in DOMAIN req :
          (req[r].pc = "ProcessHandler" /\ req'[r].pc = "done") =>
            (fs' = fs /\ config' = config /\ Len(events'[r]) = 1)]_vars

\* C35's cases: a request answered 405; a request answered 400
C35_Witness ==
  \E r \in DOMAIN req : Rejected(r) /\ req[r].resp.code = 405 /\ Len(events[r]) = 1

C35_WitnessNoItemID ==
  \E r \in DOMAIN req : Rejected(r) /\ req[r].resp.code = 400 /\ Len(events[r]) = 1

====
